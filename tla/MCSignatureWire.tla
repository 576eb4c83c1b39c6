--------------------------- MODULE MCSignatureWire ---------------------------
(***************************************************************************)
(* Every text of up to three arguments over two names and two types, with  *)
(* and without malformed parts; every text of up to two that is not closed *)
(* or has "()" behind its list, that has a head which is no word or more   *)
(* text around it; and the texts without a list.                           *)
(***************************************************************************)
EXTENDS SignatureWire

MCWords == {"Flip", "Rotate"}
MCSymbols == {"*"}

MCMixed == {"*Flip"}

Short == BoundedSeq(Tokens, 2) \ {<<>>}

MCWritten ==
    {TextOf(h, a, 0, f) : h \in MCWords, a \in BoundedSeq(Tokens, 3) \ {<<>>}, f \in {"exact", "loose"}}
        \cup {TextOf(h, a, k, "open") : h \in MCWords \cup MCMixed, a \in Short, k \in 0 .. 1}
        \cup {TextOf("Flip", a, 1, "exact") : a \in Short}
        \cup {TextOf(h, a, 0, "exact") : h \in MCMixed \cup MCSymbols, a \in Short}
        \cup {TextOf(h, a, 0, "around") : h \in Heads, a \in Short}
        \cup {TextOf(h, <<>>, k, "exact") : h \in Heads, k \in 0 .. 2}
        \cup {TextOf(h, <<>>, k, "loose") : h \in MCWords, k \in 0 .. 1}
=============================================================================
