----------------------------- MODULE HeadStore -----------------------------
(***************************************************************************)
(* What the head store of one workspace promises its callers, without      *)
(* files, fsyncs or a cache: a window of at most MaxHeads heads, newest    *)
(* first, that publishes and deletes replace as a whole.                   *)
(*                                                                         *)
(*   - An attempt is computed from the committed window.  Until it is      *)
(*     decided it may surface after a power loss, even when its caller     *)
(*     was told that it failed.                                            *)
(*   - A commit leaves no other outcome: what is committed survives.       *)
(*   - A head whose removal was acknowledged stays out of the window, and  *)
(*     no id is published twice.                                           *)
(*                                                                         *)
(* HeadRotation implements this specification (ImplementsHeadStore).       *)
(***************************************************************************)
EXTENDS Naturals, Sequences

CONSTANT MaxHeads

VARIABLES
    committed,   \* the window callers see
    pending,     \* other windows that a power loss may leave
    issued,      \* ids ever given to a publish
    reserved,    \* ids of the publishes in progress
    retired      \* heads whose removal was acknowledged

storeVars == <<committed, pending, issued, reserved, retired>>

Named(s) == {s[i] : i \in 1..Len(s)}

Init ==
    /\ committed = <<>> /\ pending = {}
    /\ issued = {} /\ reserved = {} /\ retired = {}

\* A publish gets an id that no publish had before.
Reserve ==
    /\ \E h \in reserved' \ issued :
          reserved' = {h} /\ issued' = issued \cup {h}
    /\ UNCHANGED <<committed, pending, retired>>

\* The publish in progress ends before it changed anything.
Abandon ==
    /\ reserved' = {}
    /\ UNCHANGED <<committed, pending, issued, retired>>

\* The window after publishing h: h in front, the oldest one out if full.
WindowWith(h, s) ==
    IF Len(s) < MaxHeads THEN <<h>> \o s
    ELSE <<h>> \o SubSeq(s, 1, MaxHeads - 1)

WindowWithout(k, s) == SubSeq(s, 1, k - 1) \o SubSeq(s, k + 1, Len(s))

AttemptPublish ==
    /\ \E h \in reserved :
          pending' = pending \cup {WindowWith(h, committed)}
    /\ reserved' = {}
    /\ UNCHANGED <<committed, issued, retired>>

AttemptDelete ==
    /\ \E k \in 1..Len(committed) :
          pending' = pending \cup {WindowWithout(k, committed)}
    /\ UNCHANGED <<committed, issued, reserved, retired>>

\* Outcomes are ruled out, one at a time or together.
RuleOut ==
    /\ pending' \in SUBSET pending
    /\ UNCHANGED <<committed, issued, reserved, retired>>

\* The one outcome left becomes what callers see.
CommitOne ==
    /\ \E s \in pending : pending = {s} /\ committed' = s
    /\ pending' = {}
    /\ UNCHANGED <<issued, reserved, retired>>

\* Ok is returned for an operation that took a head out of the window.
Retire ==
    /\ pending = {}
    /\ \E h \in issued \ (Named(committed) \cup reserved) :
          retired' = retired \cup {h}
    /\ UNCHANGED <<committed, pending, issued, reserved>>

\* One of the possible windows is what the next boot finds.
PowerLoss ==
    /\ committed' \in {committed} \cup pending
    /\ pending' = {} /\ reserved' = {}
    /\ UNCHANGED <<issued, retired>>

Next ==
    \/ Reserve \/ Abandon \/ AttemptPublish \/ AttemptDelete
    \/ RuleOut \/ CommitOne \/ Retire \/ PowerLoss

Spec == Init /\ [][Next]_storeVars

============================================================================
