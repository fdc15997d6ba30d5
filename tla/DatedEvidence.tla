---------------------------- MODULE DatedEvidence ---------------------------
(***************************************************************************)
(* What a timestamped evidence bundle is for, without files, digests or    *)
(* tokens.  Bytes appear at paths as time passes; an authority vouches for *)
(* a set of them that is already there; whoever reads a report is told     *)
(* that some of what was vouched for existed by that time, and is never    *)
(* told otherwise later.  Times are given in seconds: an instant is given  *)
(* as one that is less than a second before it.                            *)
(***************************************************************************)
EXTENDS Naturals

CONSTANTS Path, Content, Reader, Second

VARIABLES
  now,      \* the time
  existed,  \* <<a, c, t>> when the bytes c were at path a at time t or before
  vouched,  \* <<items, t>> when an authority signed for the items in second t
  dated     \* what each reader was told: at most one <<items, t>>

dateVars == <<now, existed, vouched, dated>>

\* An item is the claim that these bytes were at this path.
Item == Path \X Content

AllExisted(items, t) ==
  \A i \in items : \E e \in existed : e[1] = i[1] /\ e[2] = i[2] /\ e[3] <= t

Init ==
  /\ now = 0
  /\ existed \subseteq Path \X Content \X {0}
  /\ vouched = {}
  /\ dated = [r \in Reader |-> {}]

Pass ==
  /\ now' = now + 1
  /\ UNCHANGED <<existed, vouched, dated>>

Appear(a, c) ==
  /\ existed' = existed \cup {<<a, c, now>>}
  /\ UNCHANGED <<now, vouched, dated>>

\* Only for what is there, and for the present, less than a second early.
Vouch(items, t) ==
  /\ AllExisted(items, now)
  /\ t <= now /\ now < t + Second
  /\ vouched' = vouched \cup {<<items, t>>}
  /\ UNCHANGED <<now, existed, dated>>

\* A part of what was vouched for, and the time that was vouched for.
Report(r, v, items) ==
  /\ dated[r] = {}
  /\ items \subseteq v[1]
  /\ dated' = [dated EXCEPT ![r] = {<<items, v[2]>>}]
  /\ UNCHANGED <<now, existed, vouched>>

Next ==
  \/ Pass
  \/ \E a \in Path, c \in Content : Appear(a, c)
  \/ \E items \in SUBSET Item, t \in 0 .. now : Vouch(items, t)
  \/ \E r \in Reader, v \in vouched, items \in SUBSET Item : Report(r, v, items)

Spec == Init /\ [][Next]_dateVars

-----------------------------------------------------------------------------
(***************************************************************************)
(* The promise: what a reader was told did exist less than a second after  *)
(* the time given.                                                         *)
(***************************************************************************)
Promise ==
  \A r \in Reader : \A d \in dated[r] : AllExisted(d[1], d[2] + Second - 1)
=============================================================================
