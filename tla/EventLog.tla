------------------------------ MODULE EventLog ------------------------------
(***************************************************************************)
(* What the journal promises its callers: one log of contents that only    *)
(* grows at its end, in which a once-only content occurs once, and whose   *)
(* positions, once returned to a caller, stay valid.  Files, locks, heads  *)
(* and digests are gone.                                                   *)
(***************************************************************************)
EXTENDS Integers, Sequences

CONSTANTS PlainKinds, OnceKinds, PayloadKinds, Vals

VARIABLES
    log,        \* the contents, in order
    returned    \* positions that append has returned to a caller

Kinds == PlainKinds \cup OnceKinds \cup PayloadKinds
Content == [kind : Kinds, val : Vals]

SameOnce(c, d) == c.kind = d.kind /\ (c.kind \in PayloadKinds => c.val = d.val)

Unique(s) ==
    \A i, j \in 1..Len(s) : i < j /\ s[i].kind \notin PlainKinds => ~SameOnce(s[i], s[j])

Init == log = << >> /\ returned = {}

(* One or more contents are published at the end.  A crashed writer's line *)
(* may become durable together with the next writer's.                     *)
Publish ==
    /\ log' \in Seq(Content)
    /\ Len(log) < Len(log')
    /\ log = SubSeq(log', 1, Len(log))
    /\ Unique(log')
    /\ returned \subseteq returned'
    /\ returned' \subseteq 1..Len(log')

Next == Publish

Spec == Init /\ [][Next]_<<log, returned>>
=============================================================================
