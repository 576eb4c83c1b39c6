-------------------------- MODULE ServiceSignature --------------------------
(***************************************************************************)
(* ServiceSignature (libssoa/src/service/servicesignature.cpp): what the   *)
(* constructor makes of a text such as "Flip (in buffer , out buffer)".    *)
(*                                                                         *)
(* A text is abstracted to what its two regular expressions tell apart:    *)
(*   head     the part before the first parenthesis;                       *)
(*   args     the list after it, cut into arguments; a part that is no     *)
(*            argument is Garbage, and so is what follows the last comma   *)
(*            of a list that is not closed or has "()" behind it;          *)
(*   empties  counts the pairs "()" after the head and the list: "Flip"    *)
(*            has none, "Flip()" one;                                      *)
(*   form     "exact" when it is written as canonical texts are, "loose"   *)
(*            when it has other white space or a final comma, "open" when  *)
(*            the parenthesis after the list is missing, and "around" when *)
(*            there is more text around what sigPattern finds: then head   *)
(*            and args are what the two replacements leave, with the text  *)
(*            around it.                                                   *)
(* A name is a text too: when sigPattern finds nothing, regex_replace      *)
(* leaves the whole text as the name.                                      *)
(***************************************************************************)
EXTENDS Integers, Sequences, SequencesExt

CONSTANTS
    Words,    \* heads made of word characters
    Mixed,    \* heads that end in a word and are none, such as "*Flip"
    Symbols,  \* heads that do not end in a word; "*" is one
    Types     \* argument types

ASSUME HeadAssumption ==
    /\ "*" \in Symbols
    /\ Words \cap Mixed = {} /\ (Words \cup Mixed) \cap Symbols = {}

Heads == Words \cup Mixed \cup Symbols

Garbage == [direction |-> "none"]
Arguments == [direction : {"in", "out"}, type : Types]
Tokens == Arguments \cup {Garbage}

TextOf(head, args, empties, form) ==
    [head |-> head, args |-> args, empties |-> empties, form |-> form]

Texts ==
    [head : Words \cup Mixed, args : Seq(Tokens), empties : Nat, form : {"exact", "loose"}]
        \cup [head : Words \cup Mixed, args : Seq(Tokens) \ {<<>>}, empties : Nat, form : {"open"}]
        \cup [head : Symbols, args : Seq(Tokens), empties : Nat, form : {"exact"}]
        \cup [head : Heads, args : Seq(Tokens) \ {<<>>}, empties : {0}, form : {"around"}]

\* sigPattern wants a word and, between parentheses, something, be it "(": it is
\* found in "Flip()()" but not in "Flip()", and a list that is not closed is closed
\* by the "()" behind it.
Searches(t) ==
    \/ t.form = "around"
    \/ /\ t.head \in Words \cup Mixed
       /\ \/ t.args # <<>> /\ (t.form # "open" \/ t.empties > 0)
          \/ t.empties > 1

\* The whole text is what sigPattern finds.
Matches(t) == Searches(t) /\ t.head \in Words /\ t.form # "around"

\* What argPattern iterates over: the text between the parentheses, in which "()"
\* behind the list spoils its last part, and what stands before the word its first.
ArgumentList(t) ==
    IF ~Searches(t) \/ t.args = <<>> THEN <<Garbage>>
    ELSE IF t.form = "around" THEN t.args
    ELSE IF t.head \in Mixed THEN <<Garbage>>
    ELSE IF t.empties > 0 THEN [t.args EXCEPT ![Len(t.args)] = Garbage]
    ELSE t.args

\* The arguments before the first part that is none, where the loop breaks.
WellFormedPrefix(args) ==
    LET bad == SelectInSeq(args, LAMBDA a : a \notin Arguments)
    IN  IF bad = 0 THEN args ELSE SubSeq(args, 1, bad - 1)

\* Mutants of Canonical: the first argument is lost; every argument is written
\* as an input; no parentheses are written when there is nothing between them.
CanonicalTail(name, args) ==
    IF Len(args) < 2 THEN [name EXCEPT !.empties = @ + 1] ELSE [name EXCEPT !.args = Tail(args)]
CanonicalInputs(name, args) ==
    IF args = <<>>
    THEN [name EXCEPT !.empties = @ + 1]
    ELSE [name EXCEPT !.args = [i \in DOMAIN args |-> [args[i] EXCEPT !.direction = "in"]]]
CanonicalBare(name, args) == [name EXCEPT !.args = args]

\* name + "(" + arguments + ")"
Canonical(name, args) ==
    IF args = <<>>
    THEN [name EXCEPT !.empties = @ + 1]
    ELSE [name EXCEPT !.args = args]

TypesOf(args, direction) ==
    LET chosen == SelectSeq(args, LAMBDA a : a.direction = direction)
    IN  [i \in DOMAIN chosen |-> chosen[i].type]

\* The name that sigPattern captures, and the text around it.
NameOf(t) == IF Searches(t) THEN TextOf(t.head, <<>>, 0, "exact") ELSE t

\* Mutant of Parse: an argument that is none ends the loop and nothing more.
ParseMatched(t) ==
    LET name == NameOf(t)
        args == WellFormedPrefix(ArgumentList(t))
    IN  [name |-> name,
         text |-> Canonical(name, args),
         inputs |-> TypesOf(args, "in"),
         outputs |-> TypesOf(args, "out"),
         valid |-> Matches(t)]

\* The constructor from a string.
Parse(t) ==
    LET name == NameOf(t)
        args == WellFormedPrefix(ArgumentList(t))
    IN  [name |-> name,
         text |-> Canonical(name, args),
         inputs |-> TypesOf(args, "in"),
         outputs |-> TypesOf(args, "out"),
         valid |-> Matches(t) /\ Garbage \notin ToSet(ArgumentList(t))]

\* The default constructor, which makes ServiceSignature::any.
Star == TextOf("*", <<>>, 0, "exact")
AnySignature ==
    [name |-> Star, text |-> Star, inputs |-> <<>>, outputs |-> <<>>, valid |-> FALSE]

\* operator==
Same(a, b) == a.text = b.text
=============================================================================
