----------------------------- MODULE Ownership -----------------------------
(***************************************************************************)
(* policies/ownership.py: who may write a record.  Ownership is a fold of  *)
(* the transfers on record; cutover.json is an index of them that may lag  *)
(* behind and must not claim more.  One record is followed.                *)
(***************************************************************************)
EXTENDS Integers, Sequences, SequencesExt

CONSTANTS
    DefaultRuntime,     \* owner of a record nobody took over: the profile's
    TransferReferences  \* references a transfer may name

Runtimes == {"ohpipe", "dinoh"}

VARIABLES
    transfers,  \* record.adopted in the journal, with whether its decision is on record
    index       \* what cutover.json holds: the transfers it knows

ownershipVars == <<transfers, index>>

Transfer(from, to, reference, decided) ==
    [from |-> from, to |-> to, reference |-> reference, decided |-> decided]

Transfers ==
    [from : Runtimes, to : Runtimes, reference : TransferReferences, decided : BOOLEAN]

OwnerAfter(ts, default) == IF ts = << >> THEN default ELSE Last(ts).to

\* Mutant: a reference is taken for a decision
BelievedTransfer(t, owner) ==
    /\ {t.from, t.to} \subseteq {"ohpipe", DefaultRuntime}
    /\ t.from # t.to
    /\ t.from = owner

(* from_journal takes a transfer whose decision was accepted before it,    *)
(* between runtimes it knows, from the one that owned the record.          *)
ValidTransfer(t, owner) ==
    /\ {t.from, t.to} \subseteq {"ohpipe", DefaultRuntime}
    /\ t.from # t.to
    /\ t.decided
    /\ t.from = owner

Take(valid, t) ==
    IF ValidTransfer(t, OwnerAfter(valid, DefaultRuntime)) THEN Append(valid, t) ELSE valid
Taken ==
    LET valid[n \in 0..Len(transfers)] ==
            IF n = 0 THEN << >>
            ELSE Take(valid[n - 1], transfers[n])
    IN  valid
FromJournal == Taken[Len(transfers)]

OwnerOf == OwnerAfter(FromJournal, DefaultRuntime)

(* A strict reading refuses a journal with a transfer it had to leave out. *)
TransfersInvalid == Len(FromJournal) # Len(transfers)

(* verify_against: the index names an owner where the journal knows of no  *)
(* transfer, or another owner or reference than the journal's last.        *)
Drift ==
    /\ index # << >>
    /\ \/ FromJournal = << >>
       \/ Last(index).to # Last(FromJournal).to
       \/ Last(index).reference # Last(FromJournal).reference

(* init rebuilds the index unless it drifts. *)
RebuildIndex == index' = FromJournal /\ UNCHANGED transfers

(* No command of ohpipe writes record.adopted: another program with the    *)
(* journal's key does, and may do it wrongly.  And a file can be edited.   *)
Adopt(t) == transfers' = Append(transfers, t) /\ UNCHANGED index
EditIndex(ts) == index' = ts /\ UNCHANGED transfers
=============================================================================
