------------------------ MODULE SignatureWire_proofs ------------------------
(***************************************************************************)
(* Proofs about SignatureWire, for every set of words, other heads, types  *)
(* and written texts.  What carries them is the shape of a signature that  *)
(* was read from a text: either it has arguments, and then its canonical   *)
(* text reads back to the same signature if its head is a word, or it has  *)
(* none, and then its text is its name followed by a pair of parentheses.  *)
(* What is read from a text without arguments has none again; but a name   *)
(* may be a whole text, arguments included, when the text is not matched.  *)
(***************************************************************************)
EXTENDS SignatureWire, SequenceLemmas, TLAPS

\* A signature with arguments: its name is a head.
Full(o, h, a) ==
    /\ o.name = TextOf(h, <<>>, 0, "exact")
    /\ o.text = TextOf(h, a, 0, "exact")
    /\ o.inputs = TypesOf(a, "in")
    /\ o.outputs = TypesOf(a, "out")

\* One without: its text is its name and a pair of parentheses.
Bare(o, n) ==
    /\ o.name = n
    /\ o.text = [n EXCEPT !.empties = @ + 1]
    /\ o.inputs = TypesOf(<<>>, "in")
    /\ o.outputs = TypesOf(<<>>, "out")
    /\ o.valid = FALSE

IsFull(o) == \E h \in Heads, a \in Seq(Arguments) \ {<<>>} : Full(o, h, a)
IsBare(o) == \E n \in Texts : n.form # "around" /\ Bare(o, n)

IsRead(o) == \E t \in Texts : o = Parse(t)

-----------------------------------------------------------------------------
(* The loop over the arguments *)

LEMMA GarbageIsNoArgument == Garbage \notin Arguments
  BY DEF Garbage, Arguments

\* The loop of servicesignature.cpp:30-47 stops at the first part that is no
\* argument; without one it reads the whole list.
LEMMA PrefixIsArguments ==
    ASSUME NEW args \in Seq(Tokens)
    PROVE  /\ WellFormedPrefix(args) \in Seq(Arguments)
           /\ Garbage \notin ToSet(args) => WellFormedPrefix(args) = args
           /\ args[1] = Garbage /\ args # <<>> => WellFormedPrefix(args) = <<>>
<1> DEFINE I == {i \in 1 .. Len(args) : args[i] \notin Arguments}
           bad == IF I # {} THEN Min(I) ELSE 0
<1>1. Len(args) \in Nat /\ DOMAIN args = 1 .. Len(args)
  BY LenProperties
<1>2. WellFormedPrefix(args) = IF bad = 0 THEN args ELSE SubSeq(args, 1, bad - 1)
  BY DEF WellFormedPrefix, SelectInSeq
<1>3. I # {} => /\ Min(I) \in I
                /\ \A k \in I : Min(I) <= k
  <2>1. I \in SUBSET Nat
    OBVIOUS
  <2> HIDE DEF I
  <2> QED
    BY <2>1, LeastNumber DEF Min
<1>4. \A i \in 1 .. Len(args) : args[i] \in Tokens
  BY ElementOfSeq
<1>5. CASE I = {}
  <2>1. WellFormedPrefix(args) = args
    BY <1>2, <1>5
  <2>2. \A i \in 1 .. Len(args) : args[i] \in Arguments
    BY <1>5
  <2>3. args \in Seq(Arguments)
    BY <2>2, SeqDef, <1>1
  <2>4. args # <<>> => args[1] # Garbage
    <3> SUFFICES ASSUME args # <<>> PROVE args[1] # Garbage
      OBVIOUS
    <3>1. 1 \in 1 .. Len(args)
      BY <1>1, EmptySeq
    <3> QED
      BY <3>1, <2>2, GarbageIsNoArgument
  <2> QED
    BY <2>1, <2>3, <2>4
<1>6. CASE I # {}
  <2>1. /\ bad \in 1 .. Len(args)
        /\ args[bad] \notin Arguments
        /\ \A k \in I : bad <= k
    BY <1>3, <1>6
  <2> HIDE DEF bad
  <2>2. WellFormedPrefix(args) = SubSeq(args, 1, bad - 1)
    BY <1>1, <1>2, <2>1
  <2>3. \A i \in 1 .. bad - 1 : args[i] \in Arguments
    BY <1>1, <2>1
  <2>4. SubSeq(args, 1, bad - 1) \in Seq(Arguments)
    <3>1. 1 \in Int /\ bad - 1 \in Int /\ \A i \in 1 .. bad - 1 : args[i] \in Arguments
      BY <1>1, <2>1, <2>3
    <3> HIDE DEF I
    <3> QED
      BY ONLY <3>1, SubSeqProperties
  <2>5. args[bad] = Garbage
    BY <2>1, <1>4 DEF Tokens
  <2>6. Garbage \in ToSet(args)
    BY <2>1, <2>5, <1>1 DEF ToSet
  <2>7. ASSUME args[1] = Garbage, args # <<>>
        PROVE  WellFormedPrefix(args) = <<>>
    <3>1. 1 \in I
      BY <2>7, <1>1, EmptySeq, GarbageIsNoArgument
    <3>2. bad = 1
      BY <3>1, <2>1, <1>1
    <3> QED
      BY <3>2, <2>2, SubSeqEmpty
  <2> QED
    BY <2>2, <2>4, <2>6, <2>7
<1> QED
  BY <1>5, <1>6

\* What the loop makes of a list without an argument.
LEMMA NothingToRead == WellFormedPrefix(<<Garbage>>) = <<>>
<1>1. <<Garbage>> \in Seq(Tokens) /\ <<Garbage>> # <<>> /\ <<Garbage>>[1] = Garbage
  BY DEF Tokens
<1> QED
  BY <1>1, PrefixIsArguments

-----------------------------------------------------------------------------
(* Reading a text *)

LEMMA TextsFields ==
    ASSUME NEW t \in Texts
    PROVE  /\ t = TextOf(t.head, t.args, t.empties, t.form)
           /\ t.head \in Heads
           /\ t.args \in Seq(Tokens)
           /\ t.empties \in Nat
<1>1. <<>> \in Seq(Tokens)
  BY EmptySeq
<1> DEFINE S == Seq(Tokens)
<1>2. t \in [head : Words \cup Mixed, args : S, empties : Nat, form : {"exact", "loose"}]
            \cup [head : Words \cup Mixed, args : S \ {<<>>}, empties : Nat, form : {"open"}]
            \cup [head : Symbols, args : S, empties : Nat, form : {"exact"}]
            \cup [head : Heads, args : S \ {<<>>}, empties : {0}, form : {"around"}]
  BY Zenon DEF Texts
<1> HIDE DEF S
<1> QED
  BY <1>2 DEF Heads, TextOf, S

\* What is written behind a text that is not around something makes a text of it.
LEMMA TextTypes ==
    /\ \A h \in Heads, a \in Seq(Arguments) : TextOf(h, a, 0, "exact") \in Texts
    /\ Star \in Texts
    /\ \A n \in Texts : n.form # "around" => [n EXCEPT !.empties = @ + 1] \in Texts
<1> DEFINE S == Seq(Tokens)
<1>1. /\ <<>> \in S
      /\ \A a \in Seq(Arguments) : a \in S
  <2>1. Arguments \subseteq Tokens
    BY DEF Tokens
  <2>2. ASSUME NEW a \in Seq(Arguments)
        PROVE  a \in Seq(Tokens)
    <3>1. /\ Len(a) \in Nat
          /\ DOMAIN a = 1 .. Len(a)
          /\ a = [i \in 1 .. Len(a) |-> a[i]]
          /\ \A i \in 1 .. Len(a) : a[i] \in Arguments
      BY LenProperties, ElementOfSeq
    <3> QED
      BY <2>1, <3>1, SeqDef
  <2> QED
    BY <2>2, EmptySeq
<1>2. Texts =
          [head : Words \cup Mixed, args : S, empties : Nat, form : {"exact", "loose"}]
            \cup [head : Words \cup Mixed, args : S \ {<<>>}, empties : Nat, form : {"open"}]
            \cup [head : Symbols, args : S, empties : Nat, form : {"exact"}]
            \cup [head : Heads, args : S \ {<<>>}, empties : {0}, form : {"around"}]
  BY Zenon DEF Texts
<1> HIDE DEF S
<1>3. \A h \in Heads, a \in S : TextOf(h, a, 0, "exact") \in Texts
  BY <1>2 DEF Heads, TextOf
<1>4. Star \in Texts
  BY <1>1, <1>3, HeadAssumption DEF Star, Heads
<1>5. ASSUME NEW n \in Texts, n.form # "around"
      PROVE  [n EXCEPT !.empties = @ + 1] \in Texts
  <2>1. n.empties + 1 \in Nat
    BY TextsFields
  <2> DEFINE k == n.empties + 1
  <2>2. k \in Nat /\ [n EXCEPT !.empties = @ + 1] = [n EXCEPT !.empties = k]
    BY <2>1
  <2> HIDE DEF k
  <2>3. [n EXCEPT !.empties = k] \in Texts
    BY <1>2, <1>5, <2>2
  <2> QED
    BY <2>2, <2>3
<1> QED
  BY <1>1, <1>3, <1>4, <1>5

LEMMA ParseFields ==
    ASSUME NEW t
    PROVE  LET args == WellFormedPrefix(ArgumentList(t))
           IN  /\ Parse(t) = [name |-> NameOf(t),
                              text |-> Canonical(NameOf(t), args),
                              inputs |-> TypesOf(args, "in"),
                              outputs |-> TypesOf(args, "out"),
                              valid |-> Matches(t) /\ Garbage \notin ToSet(ArgumentList(t))]
               /\ Parse(t).name = NameOf(t)
               /\ Parse(t).text = Canonical(NameOf(t), args)
               /\ Parse(t).inputs = TypesOf(args, "in")
               /\ Parse(t).outputs = TypesOf(args, "out")
               /\ Parse(t).valid = (Matches(t) /\ Garbage \notin ToSet(ArgumentList(t)))
  BY Zenon DEF Parse

\* The canonical text of a signature with arguments and a word for its head reads
\* back to the same name, parameters and text, and is valid.
LEMMA FullReadsBack ==
    ASSUME NEW h \in Words, NEW a \in Seq(Arguments) \ {<<>>}
    PROVE  /\ Full(Parse(TextOf(h, a, 0, "exact")), h, a)
           /\ Parse(TextOf(h, a, 0, "exact")).valid = TRUE
<1> DEFINE t == TextOf(h, a, 0, "exact")
<1>1. t.head = h /\ t.args = a /\ t.empties = 0 /\ t.form = "exact"
  BY DEF TextOf
<1>2. t \in Texts
  BY TextTypes DEF Heads
<1>3. Searches(t) /\ Matches(t) /\ NameOf(t) = TextOf(h, <<>>, 0, "exact")
  BY <1>1 DEF Searches, Matches, NameOf
<1>4. ArgumentList(t) = a
  BY <1>1, <1>3, HeadAssumption DEF ArgumentList
<1>5. a \in Seq(Tokens)
  BY <1>1, <1>2, TextsFields
<1>6. Garbage \notin ToSet(a)
  <2>1. Len(a) \in Nat /\ DOMAIN a = 1 .. Len(a)
    BY LenProperties
  <2>2. \A i \in 1 .. Len(a) : a[i] \in Arguments
    BY ElementOfSeq
  <2> QED
    BY <2>1, <2>2, GarbageIsNoArgument DEF ToSet
<1>7. WellFormedPrefix(a) = a
  BY <1>5, <1>6, PrefixIsArguments
<1>8. Canonical(TextOf(h, <<>>, 0, "exact"), a) = t
  BY DEF Canonical, TextOf
<1> HIDE DEF t
<1>9. /\ Parse(t).name = TextOf(h, <<>>, 0, "exact")
      /\ Parse(t).text = t
      /\ Parse(t).inputs = TypesOf(a, "in")
      /\ Parse(t).outputs = TypesOf(a, "out")
      /\ Parse(t).valid = TRUE
  BY <1>3, <1>4, <1>6, <1>7, <1>8, ParseFields, Zenon
<1> QED
  BY <1>9 DEF Full, t

\* The name is a text itself, without a list where sigPattern found something.
LEMMA ReadFields ==
    ASSUME NEW t \in Texts
    PROVE  /\ ArgumentList(t) \in Seq(Tokens) \ {<<>>}
           /\ NameOf(t) \in Texts
           /\ NameOf(t).form # "around"
           /\ t.args = <<>> => NameOf(t).args = <<>> /\ ArgumentList(t) = <<Garbage>>
           /\ ~Searches(t) => ArgumentList(t) = <<Garbage>>
           /\ Searches(t) => NameOf(t) = TextOf(t.head, <<>>, 0, "exact")
<1>1. t.args \in Seq(Tokens) /\ t.head \in Heads
  BY TextsFields
<1>2. <<Garbage>> \in Seq(Tokens) /\ <<Garbage>> # <<>>
  BY DEF Tokens
<1>3. ArgumentList(t) \in Seq(Tokens) \ {<<>>}
  <2> DEFINE spoilt == [t.args EXCEPT ![Len(t.args)] = Garbage]
  <2>1. ASSUME t.args # <<>>
        PROVE  spoilt \in Seq(Tokens) \ {<<>>}
    <3>1. Len(t.args) \in 1 .. Len(t.args) /\ DOMAIN t.args = 1 .. Len(t.args)
      BY <1>1, <2>1, LenProperties, EmptySeq
    <3>2. Garbage \in Tokens
      BY DEF Tokens
    <3>3. DOMAIN spoilt = 1 .. Len(t.args)
      BY <3>1
    <3>4. \A i \in 1 .. Len(t.args) : spoilt[i] \in Tokens
      BY <1>1, <3>1, <3>2, ElementOfSeq
    <3>5. spoilt = [i \in 1 .. Len(t.args) |-> spoilt[i]] /\ Len(t.args) \in Nat
      BY <1>1, <3>3, LenProperties
    <3>6. spoilt \in Seq(Tokens)
      <4> HIDE DEF spoilt
      <4> QED
        BY <3>4, <3>5, SeqDef
    <3>7. spoilt # <<>>
      BY <3>1, <3>3, EmptySeq
    <3> QED
      BY <3>6, <3>7
  <2> HIDE DEF spoilt
  <2> QED
    BY <1>1, <1>2, <2>1, Zenon DEF ArgumentList, spoilt
<1>4. t.args = <<>> \/ ~Searches(t) => ArgumentList(t) = <<Garbage>>
  BY Zenon DEF ArgumentList
<1>5. CASE Searches(t)
  <2>1. NameOf(t) = TextOf(t.head, <<>>, 0, "exact")
    BY <1>5 DEF NameOf
  <2>2. TextOf(t.head, <<>>, 0, "exact") \in Texts
    BY <1>1, TextTypes, EmptySeq
  <2>3. /\ TextOf(t.head, <<>>, 0, "exact").args = <<>>
        /\ TextOf(t.head, <<>>, 0, "exact").form # "around"
    BY DEF TextOf
  <2> QED
    BY <1>3, <1>4, <1>5, <2>1, <2>2, <2>3, Zenon
<1>6. CASE ~Searches(t)
  <2>1. NameOf(t) = t
    BY <1>6 DEF NameOf
  <2>2. t.form # "around"
    BY <1>6 DEF Searches
  <2> QED
    BY <1>3, <1>4, <1>6, <2>1, <2>2, Zenon
<1> QED
  BY <1>5, <1>6

\* A text in which the loop reads no argument becomes a signature without any,
\* which is not valid.
LEMMA BareReadsBare ==
    ASSUME NEW t \in Texts, WellFormedPrefix(ArgumentList(t)) = <<>>
    PROVE  IsBare(Parse(t)) /\ Bare(Parse(t), NameOf(t))
<1> DEFINE list == ArgumentList(t)
           name == NameOf(t)
<1>1. list \in Seq(Tokens) /\ list # <<>> /\ name \in Texts /\ name.form # "around"
  BY ReadFields
<1>2. Garbage \in ToSet(list)
  BY <1>1, PrefixIsArguments
<1>3. Canonical(name, <<>>) = [name EXCEPT !.empties = @ + 1]
  BY DEF Canonical
<1> HIDE DEF list, name
<1>4. /\ Parse(t).name = name
      /\ Parse(t).text = [name EXCEPT !.empties = @ + 1]
      /\ Parse(t).inputs = TypesOf(<<>>, "in")
      /\ Parse(t).outputs = TypesOf(<<>>, "out")
      /\ Parse(t).valid = FALSE
  BY <1>2, <1>3, ParseFields, Zenon DEF list, name
<1>5. Bare(Parse(t), name)
  BY <1>4, Zenon DEF Bare
<1> QED
  BY <1>1, <1>5, Zenon DEF IsBare, name

\* Whatever text is read: the signature has arguments or it has none, and a
\* valid one has, and is named by a word.
LEMMA ReadShape ==
    ASSUME NEW t \in Texts
    PROVE  /\ IsFull(Parse(t)) \/ IsBare(Parse(t))
           /\ Parse(t).valid = TRUE =>
                  \E h \in Words, a \in Seq(Arguments) \ {<<>>} : Full(Parse(t), h, a)
<1> DEFINE args == WellFormedPrefix(ArgumentList(t))
<1>1. args \in Seq(Arguments)
  BY ReadFields, PrefixIsArguments
<1>2. CASE args = <<>>
  <2>1. IsBare(Parse(t)) /\ Parse(t).valid = FALSE
    BY <1>2, BareReadsBare, Zenon DEF Bare
  <2> QED
    BY <2>1
<1>3. CASE args # <<>>
  <2>1. Searches(t)
    <3>1. ArgumentList(t) # <<Garbage>>
      BY <1>3, NothingToRead
    <3> QED
      BY <3>1, ReadFields
  <2>2. t.head \in Heads /\ NameOf(t) = TextOf(t.head, <<>>, 0, "exact")
    BY <2>1, ReadFields, TextsFields
  <2>3. Canonical(TextOf(t.head, <<>>, 0, "exact"), args) = TextOf(t.head, args, 0, "exact")
    <3> HIDE DEF args
    <3> QED
      BY <1>3 DEF Canonical, TextOf
  <2>4. Full(Parse(t), t.head, args)
    BY <2>2, <2>3, ParseFields, Zenon DEF Full
  <2>5. Parse(t).valid = TRUE => t.head \in Words
    <3>1. Parse(t).valid = TRUE => Matches(t)
      BY ParseFields, Zenon
    <3> QED
      BY <3>1 DEF Matches
  <2> HIDE DEF args
  <2> QED
    BY <1>1, <1>3, <2>2, <2>4, <2>5, Zenon DEF IsFull
<1> QED
  BY <1>2, <1>3

\* The text of a signature without arguments ends in a pair of parentheses, and
\* what stands before them is its name.
LEMMA TextOfBare ==
    ASSUME NEW o, IsBare(o)
    PROVE  /\ o.text \in Texts
           /\ o.text.empties # 0
           /\ o.text.args = o.name.args
           /\ o.text # Star
           /\ o.valid = FALSE
           /\ o.name = [o.text EXCEPT !.empties = @ - 1]
           /\ o.inputs = TypesOf(<<>>, "in")
           /\ o.outputs = TypesOf(<<>>, "out")
<1>1. PICK n \in Texts : n.form # "around" /\ Bare(o, n)
  BY DEF IsBare
<1>2. n.empties \in Nat
  BY TextsFields
<1>3. n = [head |-> n.head, args |-> n.args, empties |-> n.empties, form |-> n.form]
  BY TextsFields DEF TextOf
<1>4. o.text \in Texts /\ o.text = [n EXCEPT !.empties = @ + 1]
  BY <1>1, TextTypes, Zenon DEF Bare
<1>5. o.text = [head |-> n.head, args |-> n.args, empties |-> n.empties + 1, form |-> n.form]
  BY <1>3, <1>4
<1>6. o.text.empties # 0 /\ o.text.args = n.args /\ o.text.empties - 1 = n.empties
  BY <1>2, <1>5
<1>7. o.text # Star
  BY <1>6 DEF Star, TextOf
<1>8. [o.text EXCEPT !.empties = @ - 1] = n
  <2>1. [o.text EXCEPT !.empties = @ - 1] = [o.text EXCEPT !.empties = n.empties]
    BY <1>6
  <2> QED
    BY <2>1, <1>3, <1>5
<1> QED
  BY <1>1, <1>4, <1>6, <1>7, <1>8, Zenon DEF Bare

LEMMA TextOfFull ==
    ASSUME NEW o, NEW h \in Heads, NEW a \in Seq(Arguments) \ {<<>>}, Full(o, h, a)
    PROVE  /\ o.text \in Texts
           /\ o.text.args = a
           /\ o.text.head = h
           /\ o.text.empties = 0
           /\ o.text # Star
<1>1. o.text = TextOf(h, a, 0, "exact")
  BY DEF Full
<1>2. o.text.args = a /\ o.text.head = h /\ o.text.empties = 0
  BY <1>1 DEF TextOf
<1>3. o.text \in Texts
  BY <1>1, TextTypes
<1>4. Star.args = <<>>
  BY DEF Star, TextOf
<1> QED
  BY <1>2, <1>3, <1>4

\* A text without arguments never gives a signature whose text has some.
LEMMA BareText ==
    ASSUME NEW t \in Texts, t.args = <<>>
    PROVE  Parse(t).text.args = <<>>
<1>1. WellFormedPrefix(ArgumentList(t)) = <<>>
  BY ReadFields, NothingToRead
<1>2. IsBare(Parse(t)) /\ Parse(t).name = NameOf(t)
  BY <1>1, BareReadsBare, Zenon DEF Bare
<1> QED
  BY <1>2, ReadFields, TextOfBare

\* Signatures with the same text have the same name and parameters.
LEMMA TextDecides ==
    ASSUME NEW o, NEW p, o.text = p.text,
           IsFull(o) \/ IsBare(o), IsFull(p) \/ IsBare(p)
    PROVE  o.name = p.name /\ o.inputs = p.inputs /\ o.outputs = p.outputs
<1>1. CASE IsFull(o) /\ IsFull(p)
  <2>1. PICK h \in Heads, a \in Seq(Arguments) \ {<<>>} : Full(o, h, a)
    BY <1>1, Zenon DEF IsFull
  <2>2. PICK g \in Heads, b \in Seq(Arguments) \ {<<>>} : Full(p, g, b)
    BY <1>1, Zenon DEF IsFull
  <2>3. o.text.head = h /\ o.text.args = a
    BY <2>1, TextOfFull
  <2>4. p.text.head = g /\ p.text.args = b
    BY <2>2, TextOfFull
  <2>5. h = g /\ a = b
    BY <2>3, <2>4
  <2> QED
    BY <2>1, <2>2, <2>5, Zenon DEF Full
<1>2. CASE IsBare(o) /\ IsBare(p)
  BY <1>2, TextOfBare, Zenon
<1>3. ASSUME NEW q, NEW r, IsFull(q), IsBare(r)
      PROVE  q.text # r.text
  <2>1. PICK h \in Heads, a \in Seq(Arguments) \ {<<>>} : Full(q, h, a)
    BY <1>3, Zenon DEF IsFull
  <2>2. q.text.empties = 0 /\ r.text.empties # 0
    BY <1>3, <2>1, TextOfFull, TextOfBare
  <2> QED
    BY <2>2
<1> QED
  BY <1>1, <1>2, <1>3, Zenon

-----------------------------------------------------------------------------
(* The invariant *)

\* What the registry and the request hold was read from some text.
OriginInv ==
    /\ first \in Objects
    /\ place = "program" => object = first
    /\ place # "program" => IsRead(object)

\* If what was sent is named by a word, then only a signature under that name
\* still has arguments: what was lost does not come back.
NamedInv == first.name \in Names /\ object.text.args # <<>> => object.name = first.name

IInv == OriginInv /\ ValidArrivesUnchanged /\ NamedInv

IsKnown(o) == IsRead(o) \/ o = AnySignature

LEMMA AnyFields ==
    /\ AnySignature.text = Star
    /\ AnySignature.valid = FALSE
    /\ Star.args = <<>>
    /\ Star \in Texts
  BY TextTypes DEF AnySignature, Star, TextOf

LEMMA ObjectsKnown ==
    ASSUME NEW o \in Objects
    PROVE  IsKnown(o)
  BY WrittenAssumption DEF Objects, IsKnown, IsRead

LEMMA KnownShape ==
    ASSUME NEW o, IsKnown(o)
    PROVE  /\ o = AnySignature \/ IsFull(o) \/ IsBare(o)
           /\ o.text \in Texts
           /\ IsRead(o) => o.text # Star
           /\ o.valid = TRUE =>
                  \E h \in Words, a \in Seq(Arguments) \ {<<>>} : Full(o, h, a)
           /\ ~IsFull(o) => o.text.args = o.name.args
<1>1. CASE o = AnySignature /\ ~IsRead(o)
  <2>1. AnySignature.text = AnySignature.name
    BY DEF AnySignature
  <2> QED
    BY <1>1, <2>1, AnyFields
<1>2. CASE IsRead(o)
  <2>1. /\ IsFull(o) \/ IsBare(o)
        /\ o.valid = TRUE => \E h \in Words, a \in Seq(Arguments) \ {<<>>} : Full(o, h, a)
    BY <1>2, ReadShape, Zenon DEF IsRead
  <2>2. CASE IsFull(o)
    <3>1. PICK h \in Heads, a \in Seq(Arguments) \ {<<>>} : Full(o, h, a)
      BY <2>2, Zenon DEF IsFull
    <3>2. o.text \in Texts /\ o.text # Star
      BY <3>1, TextOfFull
    <3> QED
      BY <2>1, <2>2, <3>2
  <2>3. CASE IsBare(o)
    <3>1. o.text \in Texts /\ o.text.args = o.name.args /\ o.text # Star
      BY <2>3, TextOfBare
    <3> QED
      BY <2>1, <2>3, <3>1
  <2> QED
    BY <2>1, <2>2, <2>3
<1> QED
  BY <1>1, <1>2 DEF IsKnown

\* A valid signature is read back as it is.
LEMMA ValidIsFixed ==
    ASSUME NEW o, IsKnown(o), o.valid
    PROVE  Parse(o.text) = o
<1>1. o # AnySignature
  BY AnyFields
<1>2. PICK t \in Texts : o = Parse(t)
  BY <1>1, Zenon DEF IsKnown, IsRead
<1>3. o.valid = TRUE
  <2>1. o.valid \in BOOLEAN
    BY <1>2, ParseFields, Zenon
  <2> QED
    BY <2>1
<1>4. PICK h \in Words, a \in Seq(Arguments) \ {<<>>} : Full(o, h, a)
  BY <1>3, KnownShape
<1> DEFINE p == Parse(o.text)
<1>5. o.text = TextOf(h, a, 0, "exact")
  BY <1>4, Zenon DEF Full
<1>6. Full(p, h, a) /\ p.valid = TRUE
  BY <1>5, FullReadsBack, Zenon
<1>7. /\ p = [name |-> p.name, text |-> p.text, inputs |-> p.inputs,
             outputs |-> p.outputs, valid |-> p.valid]
      /\ o = [name |-> o.name, text |-> o.text, inputs |-> o.inputs,
             outputs |-> o.outputs, valid |-> o.valid]
  <2>1. ASSUME NEW u
        PROVE  Parse(u) = [name |-> Parse(u).name, text |-> Parse(u).text,
                           inputs |-> Parse(u).inputs, outputs |-> Parse(u).outputs,
                           valid |-> Parse(u).valid]
    BY ParseFields, Zenon
  <2> QED
    BY <1>2, <2>1, Zenon
<1> HIDE DEF p
<1>8. /\ p.name = o.name
      /\ p.text = o.text
      /\ p.inputs = o.inputs
      /\ p.outputs = o.outputs
      /\ p.valid = o.valid
  BY <1>3, <1>4, <1>6, Zenon DEF Full
<1>9. p = o
  BY <1>7, <1>8, Zenon
<1> QED
  BY <1>9 DEF p

\* What has arguments and is named by a word is read back under that name.
LEMMA NameIsKept ==
    ASSUME NEW o, IsKnown(o), o.name \in Names, o.text.args # <<>>
    PROVE  Parse(o.text).name = o.name
<1>1. PICK g \in Words : o.name = TextOf(g, <<>>, 0, "exact")
  BY DEF Names
<1>2. o.name.args = <<>> /\ o.name.head = g
  BY <1>1 DEF TextOf
<1>3. IsFull(o)
  BY <1>2, KnownShape
<1>4. PICK h \in Heads, a \in Seq(Arguments) \ {<<>>} : Full(o, h, a)
  BY <1>3, Zenon DEF IsFull
<1>5. h = g
  BY <1>2, <1>4 DEF Full, TextOf
<1>6. Full(Parse(o.text), h, a)
  BY <1>4, <1>5, FullReadsBack, Zenon DEF Full
<1> QED
  BY <1>4, <1>6, Zenon DEF Full

LEMMA StartInv ==
    ASSUME first \in Objects, object = first, place = "program"
    PROVE  IInv
  BY DEF IInv, OriginInv, ValidArrivesUnchanged, NamedInv

LEMMA InvInit == Init => IInv
  BY StartInv DEF Init

LEMMA RereadKeepsInv ==
    ASSUME IInv, NEW from, NEW to, to # "program", Reread(from, to)
    PROVE  IInv'
<1>1. IsKnown(object)
  BY ObjectsKnown DEF IInv, OriginInv, IsKnown
<1>2. place' = to /\ object' = Parse(object.text) /\ first' = first
  BY DEF Reread
<1>3. OriginInv'
  <2>1. object.text \in Texts
    BY <1>1, KnownShape
  <2>2. IsRead(object')
    BY <1>2, <2>1 DEF IsRead
  <2>3. first' \in Objects
    BY <1>2 DEF IInv, OriginInv
  <2> QED
    BY <1>2, <2>2, <2>3, Zenon DEF OriginInv, Objects
<1>4. ValidArrivesUnchanged'
  <2> SUFFICES ASSUME first.valid
               PROVE  object' = first
    BY <1>2 DEF ValidArrivesUnchanged
  <2>1. object = first
    BY DEF IInv, ValidArrivesUnchanged
  <2>2. Parse(object.text) = object
    BY <1>1, <2>1, ValidIsFixed
  <2> QED
    BY <1>2, <2>1, <2>2
<1>5. NamedInv'
  <2> SUFFICES ASSUME first.name \in Names, Parse(object.text).text.args # <<>>
               PROVE  Parse(object.text).name = first.name
    BY <1>2 DEF NamedInv, Names
  <2>1. object.text.args # <<>>
    BY <1>1, KnownShape, BareText
  <2>2. object.name = first.name
    BY <2>1 DEF IInv, NamedInv
  <2> QED
    BY <1>1, <2>1, <2>2, NameIsKept
<1> QED
  BY <1>3, <1>4, <1>5 DEF IInv

LEMMA InvNext == IInv /\ [Next]_vars => IInv'
<1> SUFFICES ASSUME IInv, [Next]_vars
             PROVE  IInv'
  OBVIOUS
<1>1. CASE FromYaml
  BY <1>1, RereadKeepsInv DEF FromYaml
<1>2. CASE GenerateResponse
  BY <1>2, RereadKeepsInv DEF GenerateResponse
<1>3. CASE NextRequest
  <2>1. first' \in Objects /\ object' = first' /\ place' = "program"
    BY <1>3 DEF NextRequest
  <2> QED
    BY <2>1 DEF IInv, OriginInv, ValidArrivesUnchanged, NamedInv, Names, Objects
<1>4. CASE UNCHANGED vars
  BY <1>4 DEF vars, IInv, OriginInv, ValidArrivesUnchanged, NamedInv, Names, Objects, IsRead
<1> QED
  BY <1>1, <1>2, <1>3, <1>4 DEF Next

LEMMA InvAlways == Spec => []IInv
  BY InvInit, InvNext, PTL DEF Spec

-----------------------------------------------------------------------------
(* The theorems *)

\* A valid signature is in the registry what the program constructed: its name,
\* parameters and canonical text survive being written and read twice.
THEOREM ValidSurvives == Spec => []ValidArrivesUnchanged
<1>1. IInv => ValidArrivesUnchanged
  BY DEF IInv
<1> QED
  BY <1>1, InvAlways, PTL

\* A signature that is sent valid, or that arrives valid and was sent with a word
\* for its name, has one name at both ends: the registry takes a service under
\* another name only if what was sent was no signature at all.
THEOREM NameSurvives == Spec => []NameOfMatchedIsKept
<1>1. IInv => NameOfMatchedIsKept
  <2> SUFFICES ASSUME IInv, first.valid \/ (object.valid /\ first.name \in Names)
               PROVE  object.name = first.name
    BY DEF NameOfMatchedIsKept
  <2>1. CASE first.valid
    BY <2>1 DEF IInv, ValidArrivesUnchanged
  <2>2. CASE object.valid /\ first.name \in Names
    <3>1. IsKnown(object)
      BY ObjectsKnown DEF IInv, OriginInv, IsKnown
    <3>2. object.valid = TRUE
      BY <2>2, <3>1, AnyFields, ParseFields DEF IsKnown, IsRead
    <3>3. PICK h \in Words, a \in Seq(Arguments) \ {<<>>} : Full(object, h, a)
      BY <3>1, <3>2, KnownShape
    <3>4. object.text.args = a
      BY <3>3 DEF Full, TextOf
    <3> QED
      BY <2>2, <3>4 DEF IInv, NamedInv
  <2> QED
    BY <2>1, <2>2
<1> QED
  BY <1>1, InvAlways, PTL

\* Signatures with the same canonical text, which the registry takes for equal,
\* are found under the same name and are called with the same parameters.
THEOREM EqualsInterchange == Spec => []EqualMeansInterchangeable
<1>1. IInv => EqualMeansInterchangeable
  <2> SUFFICES ASSUME IInv, NEW t \in Written, Same(Parse(t), object)
               PROVE  /\ Parse(t).name = object.name
                      /\ Parse(t).inputs = object.inputs
                      /\ Parse(t).outputs = object.outputs
    BY DEF EqualMeansInterchangeable
  <2> DEFINE other == Parse(t)
  <2>1. IsRead(other)
    BY WrittenAssumption DEF IsRead
  <2>2. IsKnown(object)
    BY ObjectsKnown DEF IInv, OriginInv, IsKnown
  <2>3. other.text = object.text
    BY DEF Same
  <2> HIDE DEF other
  <2>4. other.text # Star
    BY <2>1, KnownShape DEF IsKnown
  <2>5. object # AnySignature
    BY <2>3, <2>4, AnyFields
  <2>6. IsFull(object) \/ IsBare(object)
    BY <2>2, <2>5, KnownShape
  <2>7. IsFull(other) \/ IsBare(other)
    BY <2>1, ReadShape DEF IsRead
  <2>8. other.name = object.name /\ other.inputs = object.inputs /\ other.outputs = object.outputs
    BY <2>3, <2>6, <2>7, TextDecides
  <2> QED
    BY <2>8 DEF other
<1> QED
  BY <1>1, InvAlways, PTL

\* ServiceSignature::any does not survive being sent: what is read from its text
\* differs from it, so no request the registry holds carries it.
THEOREM AnyIsLost == Spec => []AnyIsNeverRead
<1>1. IInv => AnyIsNeverRead
  <2> SUFFICES ASSUME IInv, place # "program"
               PROVE  object.text # AnySignature.text
    BY DEF AnyIsNeverRead, Same
  <2>1. IsRead(object)
    BY DEF IInv, OriginInv
  <2>2. object.text # Star
    BY <2>1, KnownShape DEF IsKnown
  <2> QED
    BY <2>2, AnyFields
<1> QED
  BY <1>1, InvAlways, PTL

-----------------------------------------------------------------------------
(* What other modules assume of signatures *)

\* Every ServiceSignature that a program can have, and what the registry makes of
\* it: FromYaml, then GenerateResponse.
Everything == {Parse(t) : t \in Texts} \cup {AnySignature}
AsReceived(s) == Parse(Parse(s.text).text)

LEMMA EverythingKnown ==
    ASSUME NEW s \in Everything
    PROVE  IsKnown(s)
  BY DEF Everything, IsKnown, IsRead

\* TextAssumption of IRegistry holds of the signatures the parser makes: a text
\* determines a name, and the text of ServiceSignature::any is its own, so that
\* registryimpl.cpp may find by name and compare by text.
THEOREM TextsTellApart ==
    \A s, t \in Everything :
        Same(s, t) => s.name = t.name /\ (s = AnySignature <=> t = AnySignature)
<1> SUFFICES ASSUME NEW s \in Everything, NEW t \in Everything, s.text = t.text
             PROVE  s.name = t.name /\ (s = AnySignature <=> t = AnySignature)
  BY DEF Same
<1>1. IsKnown(s) /\ IsKnown(t)
  BY EverythingKnown
<1>2. ASSUME NEW o, IsKnown(o), o # AnySignature
      PROVE  o.text # Star /\ (IsFull(o) \/ IsBare(o))
  BY <1>2, KnownShape DEF IsKnown
<1>3. CASE s = AnySignature \/ t = AnySignature
  BY <1>1, <1>2, <1>3, AnyFields
<1>4. CASE s # AnySignature /\ t # AnySignature
  BY <1>1, <1>2, <1>4, TextDecides
<1> QED
  BY <1>3, <1>4

\* ReceivedAssumption of RegistryServer holds of the way to the registry
\* (registryregistrationrequest.cpp:24, clienthandler.cpp:115): it maps signatures
\* to signatures, leaves the valid ones alone and never yields any.
THEOREM ReceivedAsAssumed ==
    \A s \in Everything :
        /\ AsReceived(s) \in Everything
        /\ s.valid => AsReceived(s) = s
        /\ ~Same(AsReceived(s), AnySignature)
<1> SUFFICES ASSUME NEW s \in Everything
             PROVE  /\ AsReceived(s) \in Everything
                    /\ s.valid => AsReceived(s) = s
                    /\ AsReceived(s).text # Star
  BY AnyFields DEF Same
<1> DEFINE once == Parse(s.text)
<1>1. IsKnown(s)
  BY EverythingKnown
<1>2. s.text \in Texts
  BY <1>1, KnownShape
<1>3. IsKnown(once)
  BY <1>2 DEF IsKnown, IsRead
<1>4. once.text \in Texts
  BY <1>3, KnownShape
<1>5. IsRead(AsReceived(s)) /\ AsReceived(s) \in Everything
  BY <1>4 DEF AsReceived, IsRead, Everything
<1>6. AsReceived(s).text # Star
  BY <1>5, KnownShape DEF IsKnown
<1>7. s.valid => AsReceived(s) = s
  BY <1>1, ValidIsFixed DEF AsReceived
<1> QED
  BY <1>5, <1>6, <1>7
=============================================================================
