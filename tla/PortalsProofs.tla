---------------------------- MODULE PortalsProofs ----------------------------
(***************************************************************************)
(* For every table of scripts: the state of a player who enters portals is *)
(* what the program keeps, and the gate of his map changes reopens after   *)
(* every change that neither failed nor met another.  For every table      *)
(* whose ways keep to WaysAssumption: who asks is answered, an entry moves *)
(* the player once, and no portal takes something and keeps him out.       *)
(*                                                                         *)
(* GateReopens is not inductive: from a mishap on nothing is known of the  *)
(* two fields, and TypeOK bounds the count.  Counted bounds it by the      *)
(* mishaps, since a failed change leaves one to three behind; Going says   *)
(* that a script is not proceeding after an exception, so that a change    *)
(* starts with none to blame on it.  What a change makes of the count is   *)
(* shown once, for any world (ChangeOutcome), along its nesting; and what  *)
(* it makes of the client and the entry (ChangeTells) along the same.      *)
(***************************************************************************)
EXTENDS Portals, TLAPS

Players == [canWarp : BOOLEAN, counter : Int, talking : BOOLEAN, event : BOOLEAN]
Entries == [who : Entrances, moves : Nat, took : BOOLEAN, ahead : BOOLEAN, refused : BOOLEAN,
            ignored : BOOLEAN, threw : BOOLEAN]
Worlds == [player : Players, client : Clients, mishaps : Nat, entry : Entries]

\* What a step of a change leaves alone, but for the gate itself.
Calm(v, w) ==
  /\ v \in Worlds
  /\ v.mishaps = w.mishaps
  /\ v.entry.threw = w.entry.threw
Same(v, w) ==
  /\ Calm(v, w)
  /\ v.player.counter = w.player.counter
  /\ v.player.canWarp = w.player.canWarp

\* A failure with at most n more changes counted.
Failed(v, w, n) ==
  /\ v \in Worlds
  /\ v.entry.threw
  /\ v.mishaps = w.mishaps + 1 /\ v.mishaps <= MaxMishaps
  /\ v.player.counter \in w.player.counter .. w.player.counter + n

Counted == player.counter \in -mishaps .. 3 * mishaps
Going == run.on /\ run.todo # <<>> => ~entry.threw
RunStates == [on : BOOLEAN, todo : Seq(Steps), fate : {"", "through", "stays", "breaks"}]
Kept == player \in Players /\ client \in Clients /\ mishaps \in 0 .. MaxMishaps /\ entry \in Entries
Gate == GateReopens /\ Counted
IInv == Kept /\ Gate /\ run \in RunStates /\ Going
-----------------------------------------------------------------------------
\* A flag of any value: the provers want the value unknown.
LEMMA SetCanWarp ==
  ASSUME NEW w \in Worlds, NEW b \in BOOLEAN
  PROVE  /\ Calm([w EXCEPT !.player.canWarp = b], w)
         /\ [w EXCEPT !.player.canWarp = b].player.counter = w.player.counter
BY SMT DEF Worlds, Players, Entries, Calm
LEMMA SetEvent ==
  ASSUME NEW w \in Worlds, NEW b \in BOOLEAN
  PROVE  Same([w EXCEPT !.player.event = b], w)
BY SMT DEF Worlds, Players, Entries, Calm, Same
LEMMA SetTalking ==
  ASSUME NEW w \in Worlds, NEW b \in BOOLEAN
  PROVE  Same([w EXCEPT !.player.talking = b], w)
BY SMT DEF Worlds, Players, Entries, Calm, Same
LEMMA SetAhead ==
  ASSUME NEW w \in Worlds, NEW b \in BOOLEAN
  PROVE  Same([w EXCEPT !.entry.ahead = b], w)
BY SMT DEF Worlds, Players, Entries, Calm, Same
LEMMA SetIgnored ==
  ASSUME NEW w \in Worlds, NEW b \in BOOLEAN
  PROVE  Same([w EXCEPT !.entry.ignored = b], w)
BY SMT DEF Worlds, Players, Entries, Calm, Same
LEMMA SetRefused ==
  ASSUME NEW w \in Worlds, NEW b \in BOOLEAN
  PROVE  Same([w EXCEPT !.entry.refused = b], w)
BY SMT DEF Worlds, Players, Entries, Calm, Same
LEMMA SetThrew ==
  ASSUME NEW w \in Worlds, NEW b \in BOOLEAN
  PROVE  /\ [w EXCEPT !.entry.threw = b] \in Worlds /\ [w EXCEPT !.entry.threw = b].entry.threw = b
         /\ [w EXCEPT !.entry.threw = b].player = w.player /\ [w EXCEPT !.entry.threw = b].mishaps = w.mishaps
BY SMT DEF Worlds, Players, Entries

\* What each assignment does to the gate.
LEMMA UpFact ==
  ASSUME NEW w \in Worlds
  PROVE  Calm(Up(w), w) /\ Up(w).player.counter = w.player.counter + 1
BY SMT DEF Up, Worlds, Players, Entries, Calm

LEMMA GatedFact ==
  ASSUME NEW w \in Worlds, NEW n \in Int, NEW b \in BOOLEAN
  PROVE  /\ Calm(Gated(w, n, b), w)
         /\ Gated(w, n, b).player.counter = n
         /\ Gated(w, n, b).player.canWarp = b
BY SMT DEF Gated, Worlds, Players, Entries, Calm

LEMMA DownFact ==
  ASSUME NEW w \in Worlds
  PROVE  /\ Calm(Down(w), w)
         /\ Down(w).player.counter = w.player.counter - 1
         /\ Down(w).player.canWarp = (w.player.counter = 1)
<1>1. w.player.counter - 1 \in Int /\ (w.player.counter = 1) \in BOOLEAN
  BY SMT DEF Worlds, Players
<1> QED BY <1>1, GatedFact DEF Down

LEMMA ReopenedFact ==
  ASSUME NEW w \in Worlds
  PROVE  Calm(Reopened(w), w) /\ Reopened(w).player.counter = w.player.counter
BY SetCanWarp DEF Reopened

\* The others do not touch it.
LEMMA JoinedFact == ASSUME NEW w \in Worlds PROVE Same(Joined(w), w)
BY SetEvent DEF Joined
LEMMA LeftFact == ASSUME NEW w \in Worlds PROVE Same(Left(w), w)
BY SetEvent DEF Left
LEMMA HushedFact == ASSUME NEW w \in Worlds PROVE Same(Hushed(w), w)
BY SetTalking DEF Hushed
LEMMA TalkingFact == ASSUME NEW w \in Worlds PROVE Same(Talking(w), w)
BY SetTalking DEF Talking
LEMMA ShownFact == ASSUME NEW w \in Worlds PROVE Same(Shown(w), w)
BY SMT DEF Shown, Worlds, Clients, Calm, Same
LEMMA SentFact == ASSUME NEW w \in Worlds PROVE Same(Sent(w), w)
BY SMT DEF Sent, Worlds, Clients, Calm, Same
LEMMA MovedFact == ASSUME NEW w \in Worlds PROVE Same(Moved(w), w)
BY SMT DEF Moved, Worlds, Entries, Calm, Same
LEMMA ToGoAheadFact == ASSUME NEW w \in Worlds PROVE Same(ToGoAhead(w), w)
BY SetAhead DEF ToGoAhead
LEMMA IgnoredFact == ASSUME NEW w \in Worlds PROVE Same(Ignored(w), w)
BY SetIgnored DEF Ignored
LEMMA RefusedFact == ASSUME NEW w \in Worlds PROVE Same(Refused(w), w)
BY SetRefused DEF Refused
LEMMA ThrownFact ==
  ASSUME NEW w \in Worlds
  PROVE  /\ Thrown(w) \in Worlds /\ Thrown(w).entry.threw
         /\ Thrown(w).player = w.player /\ Thrown(w).mishaps = w.mishaps
BY SetThrew DEF Thrown
LEMMA MissedFact ==
  ASSUME NEW w \in Worlds
  PROVE  /\ Missed(w) \in Worlds /\ Missed(w).mishaps = w.mishaps + 1
         /\ Missed(w).player = w.player /\ Missed(w).entry = w.entry
BY SMT DEF Missed, Worlds

LEMMA LandedFact == ASSUME NEW w \in Worlds PROVE Same(Landed(w), w)
<1>1. Same(Sent(w), w)
  BY SentFact
<1>2. Same(Hushed(Sent(w)), Sent(w))
  BY <1>1, HushedFact DEF Same, Calm
<1>3. Same(Moved(Hushed(Sent(w))), Hushed(Sent(w)))
  BY <1>2, MovedFact DEF Same, Calm
<1> QED BY <1>1, <1>2, <1>3 DEF Landed, Same, Calm

LEMMA PassFact == ASSUME NEW w \in Worlds PROVE Same(Pass(w), w)
BY LandedFact, IgnoredFact DEF Pass

LEMMA OpenedFact == ASSUME NEW w \in Worlds PROVE Same(Opened(w), w)
<1>1. Same(Talking(w), w)
  BY TalkingFact
<1>2. Same(Shown(Talking(w)), Talking(w))
  BY <1>1, ShownFact DEF Same, Calm
<1> QED BY <1>1, <1>2, RefusedFact DEF Opened, Same, Calm

LEMMA UnheardFact == ASSUME NEW w \in Worlds PROVE Same(Unheard(w), w)
BY RefusedFact DEF Unheard, Same, Calm

LEMMA MishapFact ==
  ASSUME NEW w \in Worlds, NEW v \in Mishap(w)
  PROVE  /\ v \in Worlds /\ v.entry.threw /\ v.player = w.player
         /\ v.mishaps = w.mishaps + 1 /\ v.mishaps <= MaxMishaps
<1>1. v = Thrown(Missed(w)) /\ w.mishaps < MaxMishaps
  BY DEF Mishap
<1>2. Missed(w) \in Worlds /\ Missed(w).mishaps = w.mishaps + 1 /\ Missed(w).player = w.player
  BY MissedFact
<1>3. w.mishaps + 1 <= MaxMishaps
  <2>1. MaxMishaps \in Nat /\ w.mishaps \in Nat
    BY PortalAssumption DEF Worlds
  <2> QED BY <1>1, <2>1
<1> QED BY <1>1, <1>2, <1>3, ThrownFact
-----------------------------------------------------------------------------
(***************************************************************************)
(* The changes within a change, from the inside out: each gives back its   *)
(* turn, or fails and leaves some counted.                                 *)
(***************************************************************************)
Even(v, w) == Calm(v, w) /\ v.player.counter = w.player.counter
Outcome(v, w, n) == Even(v, w) \/ Failed(v, w, n)

\* A failure inside a change that was counted has one more counted.
LEMMA FailedInside ==
  ASSUME NEW w \in Worlds, NEW x \in Worlds, NEW v, NEW n \in Nat,
         x.mishaps = w.mishaps, x.player.counter = w.player.counter + 1,
         Failed(v, x, n)
  PROVE  Failed(v, w, n + 1)
<1>1. w.player.counter \in Int /\ v.player.counter \in Int
  BY DEF Worlds, Players, Failed
<1>2. v.player.counter \in w.player.counter + 1 .. w.player.counter + 1 + n
  BY DEF Failed
<1>3. v.player.counter \in w.player.counter .. w.player.counter + (n + 1)
  BY <1>1, <1>2
<1> QED BY <1>3 DEF Failed

LEMMA MishapInside ==
  ASSUME NEW w \in Worlds, NEW x \in Worlds, NEW v \in Mishap(x),
         x.mishaps = w.mishaps, x.player.counter \in {w.player.counter, w.player.counter + 1}
  PROVE  Failed(v, w, 1)
<1>1. /\ v \in Worlds /\ v.entry.threw /\ v.player = x.player
      /\ v.mishaps = w.mishaps + 1 /\ v.mishaps <= MaxMishaps
  BY MishapFact
<1>2. w.player.counter \in Int
  BY DEF Worlds, Players
<1>3. v.player.counter \in w.player.counter .. w.player.counter + 1
  BY <1>1, <1>2
<1> QED BY <1>1, <1>3 DEF Failed

LEMMA ToldOutcome ==
  ASSUME NEW w \in Worlds, NEW v \in ToldEvent(w)
  PROVE  Outcome(v, w, 1)
<1>1. Even(w, w)
  BY DEF Even, Calm
<1>2. Same(Left(w), w)
  BY LeftFact
<1>3. Calm(Up(Left(w)), Left(w)) /\ Up(Left(w)).player.counter = Left(w).player.counter + 1
  BY <1>2, UpFact DEF Same, Calm
<1>4. Even(Down(Pass(Up(Left(w)))), w)
  <2>1. Same(Pass(Up(Left(w))), Up(Left(w)))
    BY <1>3, PassFact DEF Calm
  <2>2. /\ Calm(Down(Pass(Up(Left(w)))), Pass(Up(Left(w))))
        /\ Down(Pass(Up(Left(w)))).player.counter = Pass(Up(Left(w))).player.counter - 1
    BY <2>1, DownFact DEF Same, Calm
  <2>3. w.player.counter \in Int
    BY DEF Worlds, Players
  <2>4. Down(Pass(Up(Left(w)))).player.counter = (w.player.counter + 1) - 1
    BY <1>2, <1>3, <2>1, <2>2 DEF Same
  <2>5. Down(Pass(Up(Left(w)))).player.counter = w.player.counter
    BY <2>3, <2>4
  <2> QED BY <1>2, <1>3, <2>1, <2>2, <2>5 DEF Even, Same, Calm
<1>5. CASE v \in Mishap(Up(Left(w)))
  <2>1. Up(Left(w)) \in Worlds /\ Up(Left(w)).mishaps = w.mishaps
        /\ Up(Left(w)).player.counter = w.player.counter + 1
    BY <1>2, <1>3 DEF Same, Calm
  <2> QED BY <1>5, <2>1, MishapInside DEF Outcome
<1>6. v \in {w, Left(w), Down(Pass(Up(Left(w))))} \/ v \in Mishap(Up(Left(w)))
  BY DEF ToldEvent
<1> QED BY <1>1, <1>2, <1>4, <1>5, <1>6 DEF Outcome, Even, Same

LEMMA OutcomeOfSame ==
  ASSUME NEW w \in Worlds, NEW x, Same(x, w), NEW v, NEW n, Outcome(v, x, n)
  PROVE  Outcome(v, w, n)
BY DEF Outcome, Even, Failed, Same, Calm

LEMMA SentAheadOutcome ==
  ASSUME NEW w \in Worlds, ~w.entry.threw, NEW v \in SentAhead(w)
  PROVE  Outcome(v, w, 2)
<1> DEFINE x == Up(Reopened(ToGoAhead(w)))
<1>1. /\ x \in Worlds /\ x.mishaps = w.mishaps /\ x.entry.threw = w.entry.threw
      /\ x.player.counter = w.player.counter + 1 /\ ~x.entry.threw
  <2>1. Same(ToGoAhead(w), w)
    BY ToGoAheadFact
  <2>2. /\ Calm(Reopened(ToGoAhead(w)), ToGoAhead(w))
        /\ Reopened(ToGoAhead(w)).player.counter = ToGoAhead(w).player.counter
    BY <2>1, ReopenedFact DEF Same, Calm
  <2>3. /\ Calm(x, Reopened(ToGoAhead(w)))
        /\ x.player.counter = Reopened(ToGoAhead(w)).player.counter + 1
    BY <2>2, UpFact DEF Calm
  <2> QED BY <2>1, <2>2, <2>3 DEF Same, Calm
<1>2. PICK u \in ToldEvent(x) : v = IF u.entry.threw THEN u ELSE Down(Pass(u))
  BY DEF SentAhead
<1>3. Outcome(u, x, 1)
  BY <1>1, ToldOutcome
<1> HIDE DEF x
<1>4. CASE Even(u, x)
  <2>1. Calm(u, x) /\ u \in Worlds /\ ~u.entry.threw
    BY <1>1, <1>4 DEF Even, Calm
  <2>2. v = Down(Pass(u))
    BY <1>2, <2>1
  <2>3. Calm(Pass(u), u) /\ Pass(u) \in Worlds /\ Pass(u).player.counter = u.player.counter
    BY <2>1, PassFact DEF Same, Calm
  <2>4. Calm(v, Pass(u)) /\ v.player.counter = Pass(u).player.counter - 1
    BY <2>2, <2>3, DownFact
  <2>5. w.player.counter \in Int /\ u.player.counter = w.player.counter + 1
    BY <1>1, <1>4 DEF Even, Worlds, Players
  <2>6. v.player.counter = w.player.counter
    BY <2>3, <2>4, <2>5
  <2>7. Calm(v, u)
    BY <2>3, <2>4 DEF Calm
  <2>8. Calm(v, x)
    BY <2>1, <2>7 DEF Calm
  <2>9. Calm(v, w)
    BY <1>1, <2>8 DEF Calm
  <2> QED BY <2>6, <2>9 DEF Outcome, Even
<1>5. CASE Failed(u, x, 1)
  <2>1. v = u
    BY <1>2, <1>5 DEF Failed
  <2>2. Failed(u, w, 1 + 1)
    BY <1>1, <1>5, FailedInside
  <2> QED BY <2>1, <2>2 DEF Outcome
<1> QED BY <1>3, <1>4, <1>5 DEF Outcome

\* The ways an arrival may go.
LEMMA ArriveWays ==
  ASSUME NEW w, w.player.canWarp, NEW v \in Arrive(w)
  PROVE  \/ v \in Mishap(Landed(w))
         \/ \E a \in Arrivals :
              v \in IF a.ahead THEN SentAhead(Landing(w, a)) ELSE {Landing(w, a)}
<1> DEFINE ways == {IF a.ahead THEN SentAhead(Landing(w, a)) ELSE {Landing(w, a)} :
                    a \in Arrivals}
<1>1. v \in Mishap(Landed(w)) \cup (UNION ways)
  BY DEF Arrive
<1>2. ASSUME NEW z \in ways
      PROVE  \E a \in Arrivals :
               z = IF a.ahead THEN SentAhead(Landing(w, a)) ELSE {Landing(w, a)}
  OBVIOUS
<1> HIDE DEF ways
<1>3. v \in Mishap(Landed(w)) \/ \E z \in ways : v \in z
  BY <1>1
<1> QED BY <1>2, <1>3, Zenon

LEMMA ArriveOutcome ==
  ASSUME NEW w \in Worlds, ~w.entry.threw, NEW v \in Arrive(w)
  PROVE  Outcome(v, w, 2)
<1>1. Same(Landed(w), w)
  BY LandedFact
<1>2. ASSUME NEW a PROVE Same(Landing(w, a), w)
  <2>1. Same(Opened(Landed(w)), Landed(w))
    BY <1>1, OpenedFact DEF Same, Calm
  <2>2. Same(Opened(Landed(w)), w)
    BY <1>1, <2>1 DEF Same, Calm
  <2> QED BY <1>1, <2>2 DEF Landing
<1>3. CASE ~w.player.canWarp
  BY <1>3, PassFact DEF Arrive, Outcome, Even, Same
<1>4. CASE w.player.canWarp /\ v \in Mishap(Landed(w))
  <2>1. Failed(v, w, 1)
    BY <1>1, <1>4, MishapInside DEF Same, Calm
  <2>2. v.player.counter \in w.player.counter .. w.player.counter + 2
    BY <2>1 DEF Failed, Worlds, Players
  <2> QED BY <2>1, <2>2 DEF Outcome, Failed
<1>5. CASE \E a \in Arrivals : v \in IF a.ahead THEN SentAhead(Landing(w, a)) ELSE {Landing(w, a)}
  <2>1. PICK a \in Arrivals : v \in IF a.ahead THEN SentAhead(Landing(w, a)) ELSE {Landing(w, a)}
    BY <1>5
  <2>2. Same(Landing(w, a), w)
    BY <1>2
  <2>3. CASE v = Landing(w, a)
    BY <2>2, <2>3 DEF Outcome, Even, Same
  <2>4. CASE v \in SentAhead(Landing(w, a))
    <3>1. Outcome(v, Landing(w, a), 2)
      BY <2>2, <2>4, SentAheadOutcome DEF Same, Calm
    <3> QED BY <2>2, <3>1, OutcomeOfSame
  <2> QED BY <2>1, <2>3, <2>4
<1>6. ASSUME w.player.canWarp
      PROVE  \/ v \in Mishap(Landed(w))
             \/ \E a \in Arrivals :
                  v \in IF a.ahead THEN SentAhead(Landing(w, a)) ELSE {Landing(w, a)}
  BY <1>6, ArriveWays
<1> QED BY <1>3, <1>4, <1>5, <1>6

(***************************************************************************)
(* A whole change: it leaves the count as it was, and the gate open if it  *)
(* was the outermost, whatever was nested in it; or it fails.              *)
(***************************************************************************)
Whole(v, w) == Even(v, w) /\ v.player.canWarp = (w.player.counter = 0)

LEMMA ChangeOutcome ==
  ASSUME NEW w \in Worlds, ~w.entry.threw, NEW v \in Change(w)
  PROVE  Whole(v, w) \/ Failed(v, w, 3)
<1>1. Up(w) \in Worlds /\ ~Up(w).entry.threw /\ Up(w).mishaps = w.mishaps
      /\ Up(w).player.counter = w.player.counter + 1
  BY UpFact DEF Calm
<1>2. w.player.counter \in Int
  BY DEF Worlds, Players
<1>3. CASE v \in Mishap(Up(w))
  <2>1. Failed(v, w, 1)
    BY <1>1, <1>3, MishapInside
  <2>2. v.player.counter \in w.player.counter .. w.player.counter + 3
    BY <2>1 DEF Failed, Worlds, Players
  <2> QED BY <2>1, <2>2 DEF Failed
<1>4. ASSUME NEW t \in ToldEvent(Up(w)),
             NEW u \in IF t.entry.threw THEN {t} ELSE Arrive(t),
             v = IF u.entry.threw THEN u ELSE Down(u)
      PROVE  Whole(v, w) \/ Failed(v, w, 3)
  <2>1. Outcome(t, Up(w), 1)
    BY <1>1, ToldOutcome
  <2>2. CASE Failed(t, Up(w), 1)
    <3>1. v = t
      BY <1>4, <2>2 DEF Failed
    <3>2. Failed(t, w, 1 + 1)
      BY <1>1, <2>2, FailedInside
    <3>3. v.player.counter \in w.player.counter .. w.player.counter + 3
      BY <1>2, <3>1, <3>2 DEF Failed, Worlds, Players
    <3> QED BY <3>1, <3>2, <3>3 DEF Failed
  <2>3. CASE Even(t, Up(w))
    <3>1. t \in Worlds /\ ~t.entry.threw /\ t.mishaps = w.mishaps
          /\ t.player.counter = w.player.counter + 1
      BY <1>1, <2>3 DEF Even, Calm
    <3>2. u \in Arrive(t)
      BY <1>4, <3>1
    <3>3. Outcome(u, t, 2)
      BY <3>1, <3>2, ArriveOutcome
    <3>4. CASE Failed(u, t, 2)
      <4>1. v = u
        BY <1>4, <3>4 DEF Failed
      <4>2. Failed(u, w, 2 + 1)
        BY <3>1, <3>4, FailedInside
      <4> QED BY <4>1, <4>2
    <3>5. CASE Even(u, t)
      <4>1. u \in Worlds /\ ~u.entry.threw /\ u.mishaps = w.mishaps
            /\ u.player.counter = w.player.counter + 1
        BY <3>1, <3>5 DEF Even, Calm
      <4>2. v = Down(u)
        BY <1>4, <4>1
      <4>3. /\ Calm(v, u) /\ v.player.counter = u.player.counter - 1
            /\ v.player.canWarp = (u.player.counter = 1)
        BY <4>1, <4>2, DownFact
      <4>4. u.player.counter - 1 = w.player.counter
            /\ (u.player.counter = 1) = (w.player.counter = 0)
        BY <1>2, <4>1
      <4>5. Calm(v, w)
        <5>1. Calm(u, t) /\ Calm(t, Up(w)) /\ Calm(Up(w), w)
          BY <2>3, <3>5, UpFact DEF Even
        <5>2. Calm(t, w)
          BY <5>1 DEF Calm
        <5>3. Calm(u, w)
          BY <5>1, <5>2 DEF Calm
        <5> QED BY <4>3, <5>3 DEF Calm
      <4>6. v.player.counter = w.player.counter
        BY <4>3, <4>4
      <4>7. v.player.canWarp = (w.player.counter = 0)
        BY <4>3, <4>4
      <4> QED BY <4>5, <4>6, <4>7 DEF Whole, Even
    <3> QED BY <3>3, <3>4, <3>5 DEF Outcome
  <2> QED BY <2>1, <2>2, <2>3 DEF Outcome
<1>5. \/ v \in Mishap(Up(w))
      \/ \E t \in ToldEvent(Up(w)) : \E u \in IF t.entry.threw THEN {t} ELSE Arrive(t) :
            v = IF u.entry.threw THEN u ELSE Down(u)
  BY DEF Change
<1> QED BY <1>3, <1>4, <1>5
-----------------------------------------------------------------------------
\* A change that another meets counts as a mishap, whatever the two leave.
LEMMA OverlapOutcome ==
  ASSUME NEW w \in Worlds, NEW v \in Overlap(w)
  PROVE  /\ v \in Worlds /\ w.player.counter = 0 /\ v.player.counter \in -1 .. 1
         /\ v.mishaps = w.mishaps + 1
<1>1. PICK g \in Races :
        v = Gated(Missed(IF g.twice THEN Landed(Landed(w)) ELSE Landed(w)), g.counter, g.canWarp)
  BY DEF Overlap
<1> DEFINE x == IF g.twice THEN Landed(Landed(w)) ELSE Landed(w)
<1>2. x \in Worlds /\ x.mishaps = w.mishaps
  <2>1. Landed(w) \in Worlds /\ Landed(w).mishaps = w.mishaps
    BY LandedFact DEF Same, Calm
  <2>2. Landed(Landed(w)) \in Worlds /\ Landed(Landed(w)).mishaps = Landed(w).mishaps
    BY <2>1, LandedFact DEF Same, Calm
  <2> QED BY <2>1, <2>2
<1> HIDE DEF x
<1>3. Missed(x) \in Worlds /\ Missed(x).mishaps = w.mishaps + 1
  BY <1>2, MissedFact
<1>4. g.counter \in -1 .. 1 /\ g.counter \in Int /\ g.canWarp \in BOOLEAN
  BY DEF Races
<1>5. Calm(v, Missed(x)) /\ v.player.counter = g.counter
  BY <1>1, <1>3, <1>4, GatedFact DEF x
<1>6. w.player.counter = 0
  BY DEF Overlap
<1> QED BY <1>3, <1>4, <1>5, <1>6 DEF Calm

(***************************************************************************)
(* The state seen as a world.                                              *)
(***************************************************************************)
Sound(w) ==
  /\ w \in Worlds
  /\ w.mishaps <= MaxMishaps
  /\ w.player.counter \in -w.mishaps .. 3 * w.mishaps
  /\ w.mishaps = 0 => w.player.canWarp /\ w.player.counter = 0
LEMMA MovesOutcome ==
  ASSUME NEW w, Sound(w), ~w.entry.threw, NEW v \in Moves(w)
  PROVE  Sound(v)
<1>1. w \in Worlds /\ w.player.counter \in Int /\ w.mishaps \in Nat /\ MaxMishaps \in Nat
  BY PortalAssumption DEF Sound, Worlds, Players
<1>2. CASE v \in Change(w)
  <2>1. Whole(v, w) \/ Failed(v, w, 3)
    BY <1>1, <1>2, ChangeOutcome
  <2>2. CASE Whole(v, w)
    <3>1. /\ v \in Worlds /\ v.mishaps = w.mishaps /\ v.player.counter = w.player.counter
          /\ v.player.canWarp = (w.player.counter = 0)
      BY <2>2 DEF Whole, Even, Calm
    <3> QED BY <3>1 DEF Sound
  <2>3. CASE Failed(v, w, 3)
    <3>1. /\ v \in Worlds /\ v.mishaps = w.mishaps + 1 /\ v.mishaps <= MaxMishaps
          /\ v.player.counter \in w.player.counter .. w.player.counter + 3
      BY <2>3 DEF Failed
    <3>2. w.player.counter \in -w.mishaps .. 3 * w.mishaps
      BY DEF Sound
    <3>3. v.player.counter \in -v.mishaps .. 3 * v.mishaps
      BY <1>1, <3>1, <3>2
    <3>4. v.mishaps # 0
      BY <1>1, <3>1
    <3> QED BY <3>1, <3>3, <3>4 DEF Sound
  <2> QED BY <2>1, <2>2, <2>3
<1>3. CASE v \in Overlap(w)
  <2>1. /\ v \in Worlds /\ v.player.counter \in -1 .. 1
        /\ v.mishaps = w.mishaps + 1
    BY <1>1, <1>3, OverlapOutcome
  <2>2. w.mishaps <= MaxMishaps /\ w.mishaps # MaxMishaps
    BY <1>3 DEF Overlap, Sound
  <2>3. v.mishaps <= MaxMishaps /\ v.mishaps # 0
    BY <1>1, <2>1, <2>2
  <2>4. v.player.counter \in -v.mishaps .. 3 * v.mishaps
    BY <1>1, <2>1
  <2> QED BY <2>1, <2>3, <2>4 DEF Sound
<1> QED BY <1>2, <1>3 DEF Moves

LEMMA SoundWorld ==
  ASSUME Kept, Gate
  PROVE  Sound(World) /\ World.entry = entry /\ World.client = client
<1>1. World \in Worlds
  BY SMT DEF World, Worlds, Kept
<1>2. /\ World.player = player /\ World.mishaps = mishaps /\ World.entry = entry
      /\ World.client = client
  BY DEF World
<1> QED BY <1>1, <1>2 DEF Sound, Kept, Gate, GateReopens, Counted

LEMMA SoundSame ==
  ASSUME NEW w, Sound(w), NEW v, Same(v, w)
  PROVE  Sound(v)
BY DEF Sound, Same, Calm

LEMMA Becoming ==
  ASSUME NEW v, Sound(v), player' = v.player, client' = v.client, mishaps' = v.mishaps
  PROVE  /\ player' \in Players /\ client' \in Clients /\ mishaps' \in 0 .. MaxMishaps
         /\ Gate'
         /\ v.entry \in Entries
<1>1. /\ v.player \in Players /\ v.client \in Clients /\ v.mishaps \in Nat /\ v.entry \in Entries
  BY DEF Sound, Worlds
<1>2. v.mishaps <= MaxMishaps /\ MaxMishaps \in Nat
  BY PortalAssumption DEF Sound
<1> QED BY <1>1, <1>2 DEF Sound, Gate, GateReopens, Counted

LEMMA Became ==
  ASSUME NEW v, Sound(v), Becomes(v)
  PROVE  Kept' /\ Gate'
BY Becoming DEF Becomes, Kept

LEMMA EntryFacts ==
  /\ NoEntry \in Entries /\ NoEntry.threw = FALSE
  /\ \A who \in Entrances : EntryOf(who) \in Entries /\ EntryOf(who).threw = FALSE
  /\ \A e \in Entries : /\ Threw(e) \in Entries /\ Threw(e).threw
                        /\ Took(e) \in Entries /\ Took(e).threw = e.threw
<1>1. \A s \in Entrances, n \in Nat, b \in BOOLEAN :
        LET e == [who |-> s, moves |-> n, took |-> b, ahead |-> b, refused |-> b, ignored |-> b,
                  threw |-> b]
        IN  e \in Entries /\ e.threw = b
  BY SMT DEF Entries
<1>2. NoEntry \in Entries /\ NoEntry.threw = FALSE
  <2>1. Nobody \in Entrances /\ 0 \in Nat /\ FALSE \in BOOLEAN
    BY DEF Entrances
  <2> QED BY <1>1, <2>1, Zenon DEF NoEntry
<1>3. \A e \in Entries : \A who \in Entrances : /\ [e EXCEPT !.who = who] \in Entries
                                             /\ [e EXCEPT !.who = who].threw = e.threw
  BY SMT DEF Entries
<1>4. \A e \in Entries : \A b \in BOOLEAN : /\ [e EXCEPT !.threw = b] \in Entries
                                            /\ [e EXCEPT !.threw = b].threw = b
  BY SMT DEF Entries
<1>5. \A e \in Entries : \A b \in BOOLEAN : /\ [e EXCEPT !.took = b] \in Entries
                                            /\ [e EXCEPT !.took = b].threw = e.threw
  BY SMT DEF Entries
<1>6. \A who \in Entrances : EntryOf(who) \in Entries /\ EntryOf(who).threw = FALSE
  BY <1>2, <1>3, Zenon DEF EntryOf
<1>7. \A e \in Entries : Threw(e) \in Entries /\ Threw(e).threw
  BY <1>4 DEF Threw
<1>8. \A e \in Entries : Took(e) \in Entries /\ Took(e).threw = e.threw
  BY <1>5 DEF Took
<1> QED BY <1>2, <1>6, <1>7, <1>8

LEMMA AskingSound ==
  ASSUME NEW w, Sound(w), NEW who \in Entrances
  PROVE  Sound(Asking(w, who)) /\ ~Asking(w, who).entry.threw
<1>1. /\ EntryOf(who) \in Entries /\ EntryOf(who).threw = FALSE
  BY EntryFacts
<1>2. /\ Asking(w, who).player = w.player /\ Asking(w, who).mishaps = w.mishaps
      /\ Asking(w, who).entry = EntryOf(who)
  BY DEF Asking
<1>3. Asking(w, who) \in Worlds
  BY <1>1, SMT DEF Asking, Worlds, Sound, Clients
<1> QED BY <1>1, <1>2, <1>3 DEF Sound

-----------------------------------------------------------------------------
\* What the proof needs of a step's outcome besides the gate, for the script under way.
LEMMA Proceeding ==
  ASSUME IInv, run.on, run.todo # <<>>, entry'.threw \in BOOLEAN, Proceed
  PROVE  run' \in RunStates /\ Going'
<1>1. /\ Broken \in RunStates /\ Broken.todo = <<>>
  BY SMT DEF Broken, RunStates
<1>2. run \in RunStates /\ run.todo \in Seq(Steps)
  BY DEF IInv, RunStates
<1>3. Tail(run.todo) \in Seq(Steps)
  <2>1. \A S : \A s \in Seq(S) : s # <<>> => Tail(s) \in Seq(S)
    BY SMT
  <2> QED BY <1>2, <2>1
<1>4. \A r \in RunStates : \A s \in Seq(Steps) : [r EXCEPT !.todo = s] \in RunStates
  <2>1. \A A, B, C : \A r \in [on : A, todo : B, fate : C] : \A s \in B :
          [r EXCEPT !.todo = s] \in [on : A, todo : B, fate : C]
    BY SMT
  <2> QED BY <2>1, Zenon DEF RunStates
<1>5. [run EXCEPT !.todo = Tail(run.todo)] \in RunStates
  BY <1>2, <1>3, <1>4
<1> QED BY <1>1, <1>5 DEF Proceed, Going
LEMMA PlayerFacts ==
  /\ \A p \in Players : \A b \in BOOLEAN :
       /\ [p EXCEPT !.event = b] \in Players
       /\ [p EXCEPT !.event = b].counter = p.counter
       /\ [p EXCEPT !.event = b].canWarp = p.canWarp
       /\ [p EXCEPT !.talking = b] \in Players
       /\ [p EXCEPT !.talking = b].counter = p.counter
       /\ [p EXCEPT !.talking = b].canWarp = p.canWarp
  /\ LoggedIn \in Players /\ LoggedIn.canWarp /\ LoggedIn.counter = 0
<1>1. \A p \in Players : \A b \in BOOLEAN :
        /\ [p EXCEPT !.event = b] \in Players
        /\ [p EXCEPT !.event = b].counter = p.counter
        /\ [p EXCEPT !.event = b].canWarp = p.canWarp
  BY SMT DEF Players
<1>2. \A p \in Players : \A b \in BOOLEAN :
        /\ [p EXCEPT !.talking = b] \in Players
        /\ [p EXCEPT !.talking = b].counter = p.counter
        /\ [p EXCEPT !.talking = b].canWarp = p.canWarp
  BY SMT DEF Players
<1>3. \A a, b \in BOOLEAN, n \in Int :
        LET p == [canWarp |-> a, counter |-> n, talking |-> b, event |-> b]
        IN  p \in Players /\ p.canWarp = a /\ p.counter = n
  BY SMT DEF Players
<1>4. LoggedIn \in Players /\ LoggedIn.canWarp = TRUE /\ LoggedIn.counter = 0
  <2>1. 0 \in Int /\ TRUE \in BOOLEAN /\ FALSE \in BOOLEAN
    OBVIOUS
  <2> QED BY <1>3, <2>1, Zenon DEF LoggedIn
<1> QED BY <1>1, <1>2, <1>4

LEMMA NoRunFact == NoRun \in RunStates /\ ~NoRun.on
<1>1. \A b \in BOOLEAN : \A s \in Seq(Steps) : [on |-> b, todo |-> s, fate |-> ""] \in RunStates
  BY SMT DEF RunStates
<1>2. \A b \in BOOLEAN : \A s : [on |-> b, todo |-> s, fate |-> ""].on = b
  BY SMT
<1>3. <<>> \in Seq(Steps) /\ FALSE \in BOOLEAN
  OBVIOUS
<1>4. NoRun.on = FALSE
  BY <1>2, <1>3, Zenon DEF NoRun
<1> QED BY <1>1, <1>3, <1>4, Zenon DEF NoRun

\* What a player is at besides, and the entry recorded of him, do not concern the gate.
LEMMA GateAlone ==
  ASSUME IInv, mishaps' = mishaps, player' \in Players, player'.counter = player.counter,
         player'.canWarp = player.canWarp
  PROVE  mishaps' \in 0 .. MaxMishaps /\ Gate'
BY DEF IInv, Kept, Gate, GateReopens, Counted

\* A change of map in the course of a script.
LEMMA MoveInScript ==
  ASSUME IInv, run.on, run.todo # <<>>, NEW w, Same(w, World),
         NEW v \in Moves(w), Becomes(v), Proceed
  PROVE  IInv'
<1>1. Sound(World) /\ World.entry = entry /\ ~entry.threw
  BY SoundWorld DEF IInv, Going
<1>2. Sound(w) /\ ~w.entry.threw
  BY <1>1, SoundSame DEF Same, Calm
<1>3. Kept' /\ Gate'
  BY <1>2, MovesOutcome, Became
<1>4. entry'.threw \in BOOLEAN
  BY <1>3 DEF Kept, Entries
<1> QED BY <1>3, <1>4, Proceeding DEF IInv
-----------------------------------------------------------------------------
LEMMA Initially == Init => IInv
<1> SUFFICES ASSUME Init PROVE IInv
  OBVIOUS
<1>1. MaxMishaps \in Nat
  BY PortalAssumption
<1>2. Kept
  BY <1>1, PlayerFacts, EntryFacts DEF Init, Kept, Clients
<1>3. Gate
  BY PlayerFacts DEF Init, Gate, GateReopens, Counted
<1>4. run \in RunStates /\ Going
  BY NoRunFact DEF Init, Going
<1> QED BY <1>2, <1>3, <1>4 DEF IInv

LEMMA Enters == ASSUME IInv, EnterPortal PROVE IInv'
<1> DEFINE Begun(b) == [on |-> TRUE, todo |-> Program(b), fate |-> b.fate]
<1>1. PICK who \in PortalNames : \E b \in Ways(PortalTables[who]) :
        \/ run' = Begun(b) /\ entry' = EntryOf(who)
        \/ run' = Broken /\ entry' = Threw(EntryOf(who))
  BY Zenon DEF EnterPortal
<1>2. PICK b \in Ways(PortalTables[who]) :
        \/ run' = Begun(b) /\ entry' = EntryOf(who)
        \/ run' = Broken /\ entry' = Threw(EntryOf(who))
  BY <1>1
<1>3. EntryOf(who) \in Entries /\ EntryOf(who).threw = FALSE
  BY EntryFacts DEF Entrances
<1>4. Begun(b) \in RunStates
  <2>1. \A A, B, C : \A a \in A, s \in B, f \in C :
          [on |-> a, todo |-> s, fate |-> f] \in [on : A, todo : B, fate : C]
    BY SMT
  <2>2. /\ Program(b) \in Seq(Steps) /\ TRUE \in BOOLEAN
        /\ b.fate \in {"", "through", "stays", "breaks"}
    BY ProgramsAssumption
  <2> QED BY <2>1, <2>2, Zenon DEF RunStates
<1> HIDE DEF Begun
<1>5. run' \in RunStates /\ Going' /\ entry' \in Entries
  <2>1. CASE run' = Begun(b) /\ entry' = EntryOf(who)
    BY <1>3, <1>4, <2>1 DEF Going
  <2>2. CASE run' = Broken /\ entry' = Threw(EntryOf(who))
    <3>1. Broken \in RunStates /\ Broken.todo = <<>>
      BY SMT DEF Broken, RunStates
    <3> QED BY <1>3, <2>2, <3>1, EntryFacts DEF Going
  <2> QED BY <1>2, <2>1, <2>2
<1>6. UNCHANGED <<player, mishaps>> /\ client' \in Clients
  BY DEF EnterPortal, Clients
<1> QED BY <1>5, <1>6, GateAlone DEF IInv, Kept

LEMMA Scripted ==
  ASSUME IInv, DoWarp \/ DoInstance \/ DoNpc \/ DoEnable \/ DoToEvent \/ DoDispose \/ DoTake
  PROVE  IInv'
<1>1. run.on /\ run.todo # <<>> /\ Proceed
  BY DEF DoWarp, DoInstance, DoNpc, DoEnable, DoToEvent, DoDispose, DoTake, Doing
<1>2. World \in Worlds /\ Sound(World)
  BY SoundWorld DEF IInv, Sound
<1>3. Same(World, World)
  BY <1>2 DEF Same, Calm
<1>4. CASE DoWarp
  <2>1. PICK v \in Moves(World) : Becomes(v)
    BY <1>4 DEF DoWarp
  <2> QED BY <1>1, <1>3, <2>1, MoveInScript
<1>5. CASE DoInstance
  <2>1. PICK v \in Moves(Joined(World)) : Becomes(v)
    BY <1>5 DEF DoInstance
  <2>2. Same(Joined(World), World)
    BY <1>2, JoinedFact
  <2> QED BY <1>1, <2>1, <2>2, MoveInScript
<1>6. CASE DoNpc
  <2>1. PICK v \in {Opened(World), Unheard(World)} : Becomes(v)
    BY <1>6 DEF DoNpc
  <2>2. Kept' /\ Gate'
    BY <1>2, <2>1, OpenedFact, UnheardFact, SoundSame, Became
  <2> QED BY <1>1, <2>2, Proceeding DEF IInv, Kept, Entries
<1>7. ASSUME player' \in Players, player'.counter = player.counter,
             player'.canWarp = player.canWarp, mishaps' = mishaps,
             client' \in Clients, entry' \in Entries
      PROVE  IInv'
  <2>1. mishaps' \in 0 .. MaxMishaps /\ Gate'
    BY <1>7, GateAlone
  <2>2. entry'.threw \in BOOLEAN
    BY <1>7 DEF Entries
  <2>3. run' \in RunStates /\ Going'
    BY <1>1, <2>2, Proceeding
  <2> QED BY <1>7, <2>1, <2>3 DEF IInv, Kept
<1>8. player \in Players /\ client \in Clients /\ entry \in Entries
  BY DEF IInv, Kept
<1>9. CASE DoEnable
  BY <1>7, <1>8, <1>9 DEF DoEnable, Clients
<1>10. CASE DoToEvent
  <2>1. entry' \in {entry, Threw(entry)} /\ UNCHANGED <<player, client, mishaps>>
    BY <1>10 DEF DoToEvent
  <2> QED BY <1>7, <1>8, <2>1, EntryFacts
<1>11. CASE DoDispose
  <2>1. player' = [player EXCEPT !.event = FALSE] /\ UNCHANGED <<client, mishaps, entry>>
    BY <1>11 DEF DoDispose
  <2> QED BY <1>7, <1>8, <2>1, PlayerFacts
<1>12. CASE DoTake
  <2>1. /\ entry' \in {Took(entry), Threw(entry), Threw(Took(entry))}
        /\ UNCHANGED <<player, client, mishaps>>
    BY <1>12 DEF DoTake
  <2> QED BY <1>7, <1>8, <2>1, EntryFacts
<1> QED BY <1>4, <1>5, <1>6, <1>9, <1>10, <1>11, <1>12

\* An entry or an answer outside of the scripts, from a world that has just asked.
LEMMA MoveOutside ==
  ASSUME IInv, ~run.on, UNCHANGED run, NEW w, Sound(w), NEW who \in Entrances,
         NEW v \in Moves(Asking(w, who)), Becomes(v) \/ Becomes(Enabled(v))
  PROVE  IInv'
<1>1. Sound(v)
  BY AskingSound, MovesOutcome
<1>2. Sound(Enabled(v))
  <2>1. Same([v EXCEPT !.client = "answered"], v)
    BY <1>1, SMT DEF Sound, Worlds, Clients, Same, Calm
  <2> QED BY <1>1, <2>1, SoundSame DEF Enabled
<1>3. Kept' /\ Gate'
  BY <1>1, <1>2, Became
<1> QED BY <1>3 DEF IInv, Going

LEMMA MovedFromOutside == ASSUME IInv, MovedByOthers PROVE IInv'
<1>1. PICK w \in {World, Joined(World)} : \E v \in Change(Unasked(w)) :
        player' = v.player /\ client' = v.client /\ mishaps' = v.mishaps
  BY DEF MovedByOthers
<1>2. PICK v \in Change(Unasked(w)) :
        player' = v.player /\ client' = v.client /\ mishaps' = v.mishaps
  BY <1>1
<1>3. Sound(World) /\ World \in Worlds
  BY SoundWorld DEF IInv, Sound
<1>4. Sound(w)
  BY <1>2, <1>3, JoinedFact, SoundSame
<1>5. Sound(Unasked(w)) /\ ~Unasked(w).entry.threw
  <2>1. \A u \in Worlds : \A e \in Entries :
          LET x == [u EXCEPT !.entry = e]
          IN  x \in Worlds /\ x.entry = e /\ x.player = u.player /\ x.mishaps = u.mishaps
    BY SMT DEF Worlds
  <2>2. w \in Worlds /\ NoEntry \in Entries /\ NoEntry.threw = FALSE
    BY <1>4, EntryFacts DEF Sound
  <2>3. /\ Unasked(w) \in Worlds /\ Unasked(w).entry = NoEntry
        /\ Unasked(w).player = w.player /\ Unasked(w).mishaps = w.mishaps
    BY <2>1, <2>2 DEF Unasked
  <2> QED BY <1>4, <2>2, <2>3 DEF Sound
<1>6. Sound(v)
  BY <1>2, <1>5, MovesOutcome DEF Moves
<1>7. /\ player' \in Players /\ client' \in Clients /\ mishaps' \in 0 .. MaxMishaps
      /\ Gate'
  BY <1>2, <1>6, Becoming
<1> QED BY <1>7 DEF MovedByOthers, IInv, Kept, Going

\* The entry of a player who is turned away.
LEMMA TurnedFields ==
  ASSUME NEW who \in Entrances
  PROVE  LET e == [EntryOf(who) EXCEPT !.refused = TRUE]
         IN  /\ e \in Entries
             /\ e.refused = TRUE /\ e.who = who /\ e.moves = EntryOf(who).moves
             /\ e.took = EntryOf(who).took
<1>1. \A d \in Entries : \A b \in BOOLEAN :
        /\ [d EXCEPT !.refused = b] \in Entries /\ [d EXCEPT !.refused = b].refused = b
        /\ [d EXCEPT !.refused = b].who = d.who /\ [d EXCEPT !.refused = b].moves = d.moves
        /\ [d EXCEPT !.refused = b].took = d.took
  BY SMT DEF Entries
<1>2. EntryOf(who) \in Entries
  BY EntryFacts
<1>3. EntryOf(who).who = who
  <2>1. NoEntry \in Entries
    BY EntryFacts
  <2>2. \A d \in Entries : [d EXCEPT !.who = who].who = who
    BY SMT DEF Entries
  <2> QED BY <2>1, <2>2 DEF EntryOf
<1>4. TRUE \in BOOLEAN
  OBVIOUS
<1> QED BY <1>1, <1>2, <1>3, <1>4, Zenon

LEMMA Steady == ASSUME IInv, [Next]_vars PROVE IInv'
<1> SUFFICES ASSUME Next \/ UNCHANGED vars PROVE IInv'
  OBVIOUS
<1>1. player \in Players /\ client \in Clients /\ entry \in Entries /\ run \in RunStates
  BY DEF IInv, Kept
<1>2. ASSUME UNCHANGED mishaps, player' \in Players, player'.counter = player.counter,
             player'.canWarp = player.canWarp, client' \in Clients, entry' \in Entries,
             run' \in RunStates, Going'
      PROVE  IInv'
  BY <1>2, GateAlone DEF IInv, Kept
<1>3. CASE EnterPortal
  BY <1>3, Enters
<1>4. CASE RefuseEntry
  BY <1>1, <1>2, <1>4 DEF RefuseEntry, Clients, IInv, Going
<1>5. CASE DoWarp \/ DoInstance \/ DoNpc \/ DoEnable \/ DoToEvent \/ DoDispose \/ DoTake
  BY <1>5, Scripted
<1>6. CASE FinishScript
  <2>1. UNCHANGED <<player, mishaps, entry>> /\ client' \in {client, "answered"} /\ run' = NoRun
    BY <1>6 DEF FinishScript
  <2> QED BY <1>1, <1>2, <2>1, NoRunFact DEF Going, Clients
<1>7. CASE EnterPlainPortal
  <2>1. Sound(World)
    BY SoundWorld DEF IInv
  <2> QED BY <1>7, <2>1, MoveOutside DEF EnterPlainPortal, MayAct, Entrances
<1>8. CASE Revive
  <2>1. PICK w \in {World, Left(World)} :
          \E v \in Moves(Asking(w, Respawn)) : Becomes(Enabled(v))
    BY <1>8 DEF Revive
  <2>2. PICK v \in Moves(Asking(w, Respawn)) : Becomes(Enabled(v))
    BY <2>1
  <2>3. Sound(World) /\ World \in Worlds
    BY SoundWorld DEF IInv, Sound
  <2>4. Sound(w)
    BY <2>1, <2>3, LeftFact, SoundSame
  <2> QED BY <1>8, <2>2, <2>4, MoveOutside DEF Revive, MayAct, Entrances
<1>9. CASE MovedByOthers
  BY <1>9, MovedFromOutside
<1>10. CASE EventEnds
  BY <1>1, <1>2, <1>10, PlayerFacts DEF EventEnds, IInv, Going
<1>11. CASE TransitionDone
  BY <1>1, <1>2, <1>11, EntryFacts DEF TransitionDone, Going, Clients
<1>12. CASE ReceiveAnswer
  BY <1>1, <1>2, <1>12, EntryFacts DEF ReceiveAnswer, Going, Clients
<1>13. CASE TalkEnds
  BY <1>1, <1>2, <1>13, PlayerFacts, EntryFacts DEF TalkEnds, Going, Clients
<1>14. CASE TalkIsStranded
  BY <1>1, <1>2, <1>14, EntryFacts DEF TalkIsStranded, Going, Clients
<1>15. CASE Relog
  <2>1. /\ player' = LoggedIn /\ client' = "moving" /\ mishaps' = 0 /\ entry' = NoEntry
        /\ ~run.on /\ UNCHANGED run /\ MaxMishaps \in Nat
    BY <1>15, PortalAssumption DEF Relog
  <2>2. Kept'
    BY <2>1, PlayerFacts, EntryFacts DEF Kept, Clients
  <2>3. Gate'
    BY <2>1, PlayerFacts DEF Gate, GateReopens, Counted
  <2> QED BY <1>1, <2>1, <2>2, <2>3 DEF IInv, Going
<1>16. CASE TurnAway
  <2>1. PICK who \in {Plain, Respawn} : entry' = [EntryOf(who) EXCEPT !.refused = TRUE]
    BY <1>16 DEF TurnAway
  <2>2. entry' \in Entries
    BY <2>1, TurnedFields DEF Entrances
  <2> QED BY <1>1, <1>2, <1>16, <2>2 DEF TurnAway, MayAct, Going, Clients
<1>17. CASE UNCHANGED vars
  BY <1>17 DEF vars, IInv, Kept, Gate, GateReopens, Counted, Going
<1> QED BY <1>3, <1>4, <1>5, <1>6, <1>7, <1>8, <1>9, <1>10, <1>11, <1>12, <1>13, <1>14, <1>15,
           <1>16, <1>17 DEF Next

LEMMA Throughout == Spec => []IInv
BY Initially, Steady, PTL DEF Spec

(***************************************************************************)
(* Type correctness, with the bounds of the count: what MapleCharacter     *)
(* counts of the changes of map is bounded by the failed and overlapping   *)
(* ones, however the changes nest.                                         *)
(***************************************************************************)
THEOREM PortalsTypeCorrect == Spec => []TypeOK
<1>1. IInv => TypeOK
  <2> SUFFICES ASSUME IInv PROVE TypeOK
    OBVIOUS
  <2>1. MaxMishaps \in Nat /\ mishaps \in 0 .. MaxMishaps /\ player.counter \in Int
        /\ player.counter \in -mishaps .. 3 * mishaps
    BY PortalAssumption DEF IInv, Kept, Gate, Counted, Players
  <2>2. player.counter \in Counts
    BY <2>1 DEF Counts
  <2>3. player \in [canWarp : BOOLEAN, counter : Counts, talking : BOOLEAN, event : BOOLEAN]
    <3>1. \A S : \A p \in Players :
            p.counter \in S => p \in [canWarp : BOOLEAN, counter : S, talking : BOOLEAN,
                                      event : BOOLEAN]
      BY SMT DEF Players
    <3> QED BY <2>2, <3>1 DEF IInv, Kept
  <2> QED BY <2>3 DEF IInv, Kept, TypeOK, Entries, RunStates
<1> QED BY <1>1, Throughout, PTL

(***************************************************************************)
(* The gate of changeMap reopens: with no failed or overlapping change     *)
(* since the login, no change is counted between two of them and the next  *)
(* one gets through, whatever the scripts of portals and maps do.          *)
(***************************************************************************)
THEOREM GateAlwaysReopens == Spec => []GateReopens
<1>1. IInv => GateReopens
  BY DEF IInv, Gate
<1> QED BY <1>1, Throughout, PTL
-----------------------------------------------------------------------------
(***************************************************************************)
(* What the scripts of portals promise, from conditions on the ways        *)
(* through each of them.  The conditions are about a script alone; what    *)
(* happens between its steps (changes by timers, events that end, failed   *)
(* changes) must not undo what it has done so far.                         *)
(***************************************************************************)
Warps     == {"warp", "instance"}
Answering == Warps \cup {"npc", "enable"}
MayThrow  == {"take, perhaps", "to the event"}

\* The rest of a way answers the client; moves the player once at most; moves him before it
\* can throw; and takes nothing but from a player who has been moved or surely will be.
Telling(p)   == \E i \in DOMAIN p : p[i] \in Answering
MovesOnce(p) == \A i, j \in DOMAIN p : p[i] \in Warps /\ p[j] \in Warps => i = j
Unfailing(p) ==
  \E j \in DOMAIN p : p[j] \in Warps /\ \A k \in DOMAIN p : k < j => p[k] \notin MayThrow
PaysToGo(p)  ==
  \A i \in DOMAIN p : p[i] \in {"take", "take, perhaps"} =>
    \/ \E j \in DOMAIN p : j < i /\ p[j] \in Warps
    \/ /\ p[i] = "take"
       /\ \E j \in DOMAIN p : /\ i < j /\ p[j] \in Warps
                              /\ \A k \in DOMAIN p : i < k /\ k < j => p[k] \notin MayThrow

ASSUME WaysAssumption ==
  \A who \in PortalNames : \A b \in Ways(PortalTables[who]) :
    /\ who \notin Mute /\ b.fate = "through" => Telling(Program(b))
    /\ who \notin Restless => MovesOnce(Program(b))
    /\ who \notin Tolls => PaysToGo(Program(b))

\* The inductive invariant: a client that waits will be told, a player who was moved is not
\* moved again, one who has paid will be.
Excused == entry.who \in Mute \/ entry.refused \/ entry.ignored
WillBeTold ==
  client = "waiting" =>
    \/ Excused
    \/ IF run.on THEN run.fate # "through" \/ Telling(run.todo)
                 ELSE entry.who \in {Plain, Respawn} /\ entry.threw
MovedOnce ==
  mishaps = 0 /\ ~entry.ahead /\ entry.who \notin Restless =>
    /\ entry.moves <= 1
    /\ run.on => /\ MovesOnce(run.todo)
                 /\ entry.moves = 1 => \A i \in DOMAIN run.todo : run.todo[i] \notin Warps
PaidToGo ==
  mishaps = 0 /\ entry.who \notin Tolls /\ entry.moves = 0 =>
    IF run.on THEN PaysToGo(run.todo) /\ (entry.took => Unfailing(run.todo))
              ELSE ~entry.took
PInv == IInv /\ WillBeTold /\ MovedOnce /\ PaidToGo
-----------------------------------------------------------------------------
(* What a change of map makes of the client and of the entry under way.    *)

\* Nothing the player was told or that happened to him is taken back.
Later(v, w) ==
  /\ v.entry.who = w.entry.who /\ v.entry.took = w.entry.took
  /\ w.entry.refused => v.entry.refused
  /\ w.entry.ignored => v.entry.ignored
  /\ w.entry.ahead => v.entry.ahead
  /\ w.client # "waiting" => v.client # "waiting"
  /\ v.entry.moves >= w.entry.moves
MovesBy(v, w, n) ==
  Later(v, w) /\ v.entry.moves = w.entry.moves + n /\ v.entry.ahead = w.entry.ahead
Told(v) == v.client # "waiting"

LEMMA WorldParts ==
  ASSUME NEW w \in Worlds
  PROVE  /\ w.player \in Players /\ w.client \in Clients /\ w.mishaps \in Nat /\ w.entry \in Entries
         /\ w.entry.moves \in Nat /\ w.player.counter \in Int
BY DEF Worlds, Players, Entries

LEMMA LaterTwice ==
  ASSUME NEW w \in Worlds, NEW u \in Worlds, NEW v \in Worlds, Later(u, w), Later(v, u)
  PROVE  Later(v, w)
<1>1. v.entry.moves >= w.entry.moves
  BY WorldParts DEF Later
<1> QED BY <1>1 DEF Later

LEMMA MovesTwice ==
  ASSUME NEW w \in Worlds, NEW u \in Worlds, NEW v \in Worlds, NEW n \in Nat, NEW m \in Nat,
         MovesBy(u, w, n), MovesBy(v, u, m)
  PROVE  MovesBy(v, w, n + m)
<1>1. v.entry.moves = w.entry.moves + (n + m)
  BY WorldParts DEF MovesBy
<1> QED BY <1>1, LaterTwice DEF MovesBy

\* A step that leaves the client and the entry alone.
LEMMA StillMoves ==
  ASSUME NEW w \in Worlds, NEW v, v.client = w.client, v.entry = w.entry
  PROVE  MovesBy(v, w, 0)
BY WorldParts DEF MovesBy, Later

LEMMA StillSteps ==
  ASSUME NEW w \in Worlds
  PROVE  /\ MovesBy(Up(w), w, 0) /\ MovesBy(Down(w), w, 0) /\ MovesBy(Reopened(w), w, 0)
         /\ MovesBy(Joined(w), w, 0) /\ MovesBy(Left(w), w, 0) /\ MovesBy(Hushed(w), w, 0)
         /\ MovesBy(Talking(w), w, 0) /\ MovesBy(Missed(w), w, 0)
         /\ \A n \in Int, b \in BOOLEAN : MovesBy(Gated(w, n, b), w, 0)
         /\ Down(w).client = w.client /\ Down(w).entry = w.entry
         /\ Joined(w).client = w.client /\ Joined(w).entry = w.entry
         /\ Left(w).client = w.client /\ Left(w).entry = w.entry
         /\ Left(w).player.canWarp = w.player.canWarp /\ Up(w).player.canWarp = w.player.canWarp
<1>1. Up(w).client = w.client /\ Up(w).entry = w.entry /\ Up(w).player.canWarp = w.player.canWarp
  BY SMT DEF Up, Worlds, Players
<1>2. \A n, b : Gated(w, n, b).client = w.client /\ Gated(w, n, b).entry = w.entry
  BY SMT DEF Gated, Worlds
<1>3. Down(w).client = w.client /\ Down(w).entry = w.entry
  BY <1>2 DEF Down
<1>4. \A b : /\ [w EXCEPT !.player.canWarp = b].client = w.client
             /\ [w EXCEPT !.player.canWarp = b].entry = w.entry
  BY SMT DEF Worlds
<1>5. \A b : /\ [w EXCEPT !.player.event = b].client = w.client
             /\ [w EXCEPT !.player.event = b].entry = w.entry
             /\ [w EXCEPT !.player.event = b].player.canWarp = w.player.canWarp
  BY SMT DEF Worlds, Players
<1>6. \A b : /\ [w EXCEPT !.player.talking = b].client = w.client
             /\ [w EXCEPT !.player.talking = b].entry = w.entry
  BY SMT DEF Worlds
<1>7. Missed(w).client = w.client /\ Missed(w).entry = w.entry
  BY SMT DEF Missed, Worlds
<1>8. /\ Reopened(w).client = w.client /\ Reopened(w).entry = w.entry
      /\ Joined(w).client = w.client /\ Joined(w).entry = w.entry
      /\ Left(w).client = w.client /\ Left(w).entry = w.entry
      /\ Left(w).player.canWarp = w.player.canWarp
      /\ Hushed(w).client = w.client /\ Hushed(w).entry = w.entry
      /\ Talking(w).client = w.client /\ Talking(w).entry = w.entry
  BY <1>4, <1>5, <1>6, Zenon DEF Reopened, Joined, Left, Hushed, Talking
<1> QED BY <1>1, <1>2, <1>3, <1>7, <1>8, StillMoves

\* The steps that do not.
LEMMA ShownTells ==
  ASSUME NEW w \in Worlds
  PROVE  MovesBy(Shown(w), w, 0) /\ Told(Shown(w))
<1>1. Shown(w).entry = w.entry /\ Told(Shown(w))
  BY SMT DEF Shown, Worlds, Told
<1> QED BY <1>1, WorldParts DEF MovesBy, Later, Told

LEMMA SentTells ==
  ASSUME NEW w \in Worlds
  PROVE  MovesBy(Sent(w), w, 0) /\ Told(Sent(w))
<1>1. Sent(w).entry = w.entry /\ Told(Sent(w))
  BY SMT DEF Sent, Worlds, Told
<1> QED BY <1>1, WorldParts DEF MovesBy, Later, Told

LEMMA MovedTells ==
  ASSUME NEW w \in Worlds
  PROVE  MovesBy(Moved(w), w, 1) /\ Moved(w).client = w.client
<1>1. /\ Moved(w).client = w.client /\ Moved(w).entry.moves = w.entry.moves + 1
      /\ Moved(w).entry.who = w.entry.who /\ Moved(w).entry.took = w.entry.took
      /\ Moved(w).entry.ahead = w.entry.ahead /\ Moved(w).entry.refused = w.entry.refused
      /\ Moved(w).entry.ignored = w.entry.ignored
  BY SMT DEF Moved, Worlds, Entries
<1>2. Moved(w).entry.moves >= w.entry.moves
  BY <1>1, WorldParts
<1> QED BY <1>1, <1>2 DEF MovesBy, Later

LEMMA FlagTells ==
  ASSUME NEW w \in Worlds
  PROVE  /\ Later(ToGoAhead(w), w) /\ ToGoAhead(w).entry.ahead
         /\ MovesBy(Ignored(w), w, 0) /\ Ignored(w).entry.ignored
         /\ MovesBy(Refused(w), w, 0) /\ Refused(w).entry.refused
         /\ MovesBy(Thrown(w), w, 0)
<1>1. \A b \in BOOLEAN : LET v == [w EXCEPT !.entry.ahead = b] IN
        /\ v.client = w.client /\ v.entry.ahead = b
        /\ v.entry.who = w.entry.who /\ v.entry.took = w.entry.took
        /\ v.entry.moves = w.entry.moves /\ v.entry.refused = w.entry.refused
        /\ v.entry.ignored = w.entry.ignored
  BY SMT DEF Worlds, Entries
<1>2. \A b \in BOOLEAN : LET v == [w EXCEPT !.entry.ignored = b] IN
        /\ v.client = w.client /\ v.entry.ignored = b
        /\ v.entry.who = w.entry.who /\ v.entry.took = w.entry.took
        /\ v.entry.moves = w.entry.moves /\ v.entry.refused = w.entry.refused
        /\ v.entry.ahead = w.entry.ahead
  BY SMT DEF Worlds, Entries
<1>3. \A b \in BOOLEAN : LET v == [w EXCEPT !.entry.refused = b] IN
        /\ v.client = w.client /\ v.entry.refused = b
        /\ v.entry.who = w.entry.who /\ v.entry.took = w.entry.took
        /\ v.entry.moves = w.entry.moves /\ v.entry.ignored = w.entry.ignored
        /\ v.entry.ahead = w.entry.ahead
  BY SMT DEF Worlds, Entries
<1>4. \A b \in BOOLEAN : LET v == [w EXCEPT !.entry.threw = b] IN
        /\ v.client = w.client /\ v.entry.refused = w.entry.refused
        /\ v.entry.who = w.entry.who /\ v.entry.took = w.entry.took
        /\ v.entry.moves = w.entry.moves /\ v.entry.ignored = w.entry.ignored
        /\ v.entry.ahead = w.entry.ahead
  BY SMT DEF Worlds, Entries
<1>5. /\ ToGoAhead(w).client = w.client /\ ToGoAhead(w).entry.ahead = TRUE
      /\ ToGoAhead(w).entry.who = w.entry.who /\ ToGoAhead(w).entry.took = w.entry.took
      /\ ToGoAhead(w).entry.moves = w.entry.moves
      /\ ToGoAhead(w).entry.refused = w.entry.refused
      /\ ToGoAhead(w).entry.ignored = w.entry.ignored
  BY <1>1, Zenon DEF ToGoAhead
<1>6. /\ Ignored(w).client = w.client /\ Ignored(w).entry.ignored = TRUE
      /\ Ignored(w).entry.who = w.entry.who /\ Ignored(w).entry.took = w.entry.took
      /\ Ignored(w).entry.moves = w.entry.moves /\ Ignored(w).entry.refused = w.entry.refused
      /\ Ignored(w).entry.ahead = w.entry.ahead
  BY <1>2, Zenon DEF Ignored
<1>7. /\ Refused(w).client = w.client /\ Refused(w).entry.refused = TRUE
      /\ Refused(w).entry.who = w.entry.who /\ Refused(w).entry.took = w.entry.took
      /\ Refused(w).entry.moves = w.entry.moves /\ Refused(w).entry.ignored = w.entry.ignored
      /\ Refused(w).entry.ahead = w.entry.ahead
  BY <1>3, Zenon DEF Refused
<1>8. /\ Thrown(w).client = w.client /\ Thrown(w).entry.refused = w.entry.refused
      /\ Thrown(w).entry.who = w.entry.who /\ Thrown(w).entry.took = w.entry.took
      /\ Thrown(w).entry.moves = w.entry.moves /\ Thrown(w).entry.ignored = w.entry.ignored
      /\ Thrown(w).entry.ahead = w.entry.ahead
  BY <1>4, Zenon DEF Thrown
<1> QED BY <1>5, <1>6, <1>7, <1>8, WorldParts DEF MovesBy, Later

LEMMA LandedTells ==
  ASSUME NEW w \in Worlds
  PROVE  Landed(w) \in Worlds /\ MovesBy(Landed(w), w, 1) /\ Told(Landed(w))
<1>1. Sent(w) \in Worlds /\ MovesBy(Sent(w), w, 0) /\ Told(Sent(w))
  BY SentFact, SentTells DEF Same, Calm
<1>2. Hushed(Sent(w)) \in Worlds /\ MovesBy(Hushed(Sent(w)), Sent(w), 0)
  BY <1>1, HushedFact, StillSteps DEF Same, Calm
<1>3. Landed(w) \in Worlds /\ MovesBy(Landed(w), Hushed(Sent(w)), 1)
  BY <1>2, MovedFact, MovedTells DEF Landed, Same, Calm
<1>4. MovesBy(Hushed(Sent(w)), w, 0 + 0)
  BY <1>1, <1>2, MovesTwice
<1>5. MovesBy(Landed(w), w, (0 + 0) + 1)
  BY <1>2, <1>3, <1>4, MovesTwice
<1>6. Told(Landed(w))
  BY <1>1, <1>2, <1>3 DEF MovesBy, Later, Told
<1> QED BY <1>3, <1>5, <1>6

\* A change that the gate lets through moves the player, one that it does not is marked.
LEMMA PassTells ==
  ASSUME NEW w \in Worlds
  PROVE  /\ Pass(w) \in Worlds /\ Later(Pass(w), w)
         /\ w.player.canWarp => MovesBy(Pass(w), w, 1) /\ Told(Pass(w))
         /\ ~w.player.canWarp => MovesBy(Pass(w), w, 0) /\ Pass(w).entry.ignored
<1>1. Pass(w) \in Worlds
  BY PassFact DEF Same, Calm
<1> QED BY <1>1, LandedTells, FlagTells DEF Pass, MovesBy

LEMMA OpenedTells ==
  ASSUME NEW w \in Worlds
  PROVE  /\ Opened(w) \in Worlds /\ MovesBy(Opened(w), w, 0)
         /\ Told(Opened(w)) \/ Opened(w).entry.refused
<1>1. Talking(w) \in Worlds /\ MovesBy(Talking(w), w, 0)
  BY TalkingFact, StillSteps DEF Same, Calm
<1>2. Shown(Talking(w)) \in Worlds /\ MovesBy(Shown(Talking(w)), Talking(w), 0)
      /\ Told(Shown(Talking(w)))
  BY <1>1, ShownFact, ShownTells DEF Same, Calm
<1>3. MovesBy(Shown(Talking(w)), w, 0 + 0)
  BY <1>1, <1>2, MovesTwice
<1>4. Opened(w) \in Worlds
  BY OpenedFact DEF Same, Calm
<1> QED BY <1>2, <1>3, <1>4, FlagTells DEF Opened

LEMMA UnheardTells ==
  ASSUME NEW w \in Worlds
  PROVE  Unheard(w) \in Worlds /\ MovesBy(Unheard(w), w, 0)
<1>1. Unheard(w) \in Worlds
  BY UnheardFact DEF Same, Calm
<1>2. CASE w.player.talking
  BY <1>1, <1>2, FlagTells DEF Unheard
<1>3. CASE ~w.player.talking
  BY <1>1, <1>3, WorldParts DEF Unheard, MovesBy, Later
<1> QED BY <1>2, <1>3

LEMMA LandingTells ==
  ASSUME NEW w \in Worlds, NEW a
  PROVE  Landing(w, a) \in Worlds /\ MovesBy(Landing(w, a), w, 1) /\ Told(Landing(w, a))
<1>1. Landed(w) \in Worlds /\ MovesBy(Landed(w), w, 1) /\ Told(Landed(w))
  BY LandedTells
<1>2. Opened(Landed(w)) \in Worlds /\ MovesBy(Opened(Landed(w)), Landed(w), 0)
  BY <1>1, OpenedTells
<1>3. MovesBy(Opened(Landed(w)), w, 1 + 0)
  BY <1>1, <1>2, MovesTwice
<1>4. Told(Opened(Landed(w)))
  BY <1>1, <1>2 DEF MovesBy, Later, Told
<1> QED BY <1>1, <1>2, <1>3, <1>4 DEF Landing

LEMMA MishapTells ==
  ASSUME NEW w \in Worlds, NEW v \in Mishap(w)
  PROVE  v \in Worlds /\ v.entry.threw /\ Later(v, w)
<1>1. v = Thrown(Missed(w))
  BY DEF Mishap
<1>2. Missed(w) \in Worlds /\ MovesBy(Missed(w), w, 0)
  BY MissedFact, StillSteps
<1>3. v \in Worlds /\ v.entry.threw /\ MovesBy(v, Missed(w), 0)
  BY <1>1, <1>2, ThrownFact, FlagTells
<1> QED BY <1>2, <1>3, LaterTwice DEF MovesBy

\* While the event is told it moves the player at most once, and only by shutting the gate
\* on the change it is told of.
LEMMA ToldTells ==
  ASSUME NEW w \in Worlds, NEW v \in ToldEvent(w)
  PROVE  /\ v \in Worlds /\ Later(v, w)
         /\ ~v.entry.threw /\ w.player.canWarp /\ w.player.counter = 1 =>
              \/ v.player.canWarp /\ MovesBy(v, w, 0)
              \/ ~v.player.canWarp /\ MovesBy(v, w, 1) /\ Told(v)
<1> DEFINE l == Left(w)
           x == Up(Left(w))
           y == Pass(Up(Left(w)))
           z == Down(Pass(Up(Left(w))))
<1>1. MovesBy(w, w, 0)
  BY StillMoves
<1>2. l \in Worlds /\ MovesBy(l, w, 0) /\ l.player.canWarp = w.player.canWarp
      /\ l.player.counter = w.player.counter
  BY LeftFact, StillSteps DEF Same, Calm
<1>3. x \in Worlds /\ MovesBy(x, l, 0) /\ x.player.canWarp = w.player.canWarp
      /\ x.player.counter = w.player.counter + 1
  BY <1>2, UpFact, StillSteps DEF Calm
<1>4. MovesBy(x, w, 0 + 0)
  BY <1>2, <1>3, MovesTwice
<1>5. /\ y \in Worlds /\ Later(y, x) /\ y.player.counter = x.player.counter
      /\ x.player.canWarp => MovesBy(y, x, 1) /\ Told(y)
  BY <1>3, PassTells, PassFact DEF Same, Calm
<1>6. z \in Worlds /\ MovesBy(z, y, 0) /\ z.player.canWarp = (y.player.counter = 1)
  BY <1>5, DownFact, StillSteps DEF Calm
<1> HIDE DEF l, x, y, z
<1>7. Later(z, w)
  BY <1>3, <1>4, <1>5, <1>6, LaterTwice DEF MovesBy
<1>8. ASSUME w.player.canWarp, w.player.counter = 1
      PROVE  ~z.player.canWarp /\ MovesBy(z, w, 1) /\ Told(z)
  <2>1. ~z.player.canWarp
    <3>1. y.player.counter # 1
      BY <1>3, <1>5, <1>8
    <3> QED BY <1>6, <3>1, Zenon
  <2>2. MovesBy(y, w, (0 + 0) + 1) /\ Told(y)
    BY <1>3, <1>4, <1>5, <1>8, MovesTwice
  <2>3. MovesBy(z, w, ((0 + 0) + 1) + 0)
    BY <1>5, <1>6, <2>2, MovesTwice
  <2> QED BY <1>6, <2>1, <2>2, <2>3 DEF MovesBy, Later, Told
<1>9. CASE v \in Mishap(x)
  BY <1>3, <1>4, <1>9, MishapTells, LaterTwice DEF MovesBy
<1>10. v \in {w, l, z} \/ v \in Mishap(x)
  BY DEF ToldEvent, l, x, y, z
<1> QED BY <1>1, <1>2, <1>6, <1>7, <1>8, <1>9, <1>10 DEF MovesBy

LEMMA SentAheadTells ==
  ASSUME NEW w \in Worlds, NEW v \in SentAhead(w)
  PROVE  v \in Worlds /\ Later(v, w) /\ v.entry.ahead
<1> DEFINE x == ToGoAhead(w)
           y == Reopened(x)
           z == Up(y)
<1>1. x \in Worlds /\ Later(x, w) /\ x.entry.ahead
  BY ToGoAheadFact, FlagTells DEF Same, Calm
<1>2. y \in Worlds /\ Later(y, x)
  BY <1>1, ReopenedFact, StillSteps DEF Calm, MovesBy
<1>3. z \in Worlds /\ Later(z, y)
  BY <1>2, UpFact, StillSteps DEF Calm, MovesBy
<1>4. Later(z, w) /\ z.entry.ahead
  BY <1>1, <1>2, <1>3, LaterTwice DEF Later
<1>5. PICK u \in ToldEvent(z) : v = IF u.entry.threw THEN u ELSE Down(Pass(u))
  BY DEF SentAhead
<1> HIDE DEF x, y, z
<1>6. u \in Worlds /\ Later(u, z)
  BY <1>3, <1>5, ToldTells
<1>7. Pass(u) \in Worlds /\ Later(Pass(u), u)
  BY <1>6, PassTells
<1>8. Down(Pass(u)) \in Worlds /\ Later(Down(Pass(u)), Pass(u))
  BY <1>7, DownFact, StillSteps DEF Calm, MovesBy
<1>9. Later(u, w) /\ Later(Down(Pass(u)), w)
  BY <1>3, <1>4, <1>6, <1>7, <1>8, LaterTwice
<1>10. v \in Worlds /\ Later(v, w) /\ Later(v, z)
  BY <1>3, <1>5, <1>6, <1>7, <1>8, <1>9, LaterTwice
<1> QED BY <1>4, <1>10 DEF Later

LEMMA ArriveTells ==
  ASSUME NEW w \in Worlds, NEW v \in Arrive(w)
  PROVE  /\ v \in Worlds /\ Later(v, w)
         /\ v.entry.threw \/ Told(v) \/ v.entry.ignored
         /\ ~v.entry.threw /\ ~w.player.canWarp => MovesBy(v, w, 0)
         /\ ~v.entry.threw /\ w.player.canWarp =>
              /\ v.entry.moves >= w.entry.moves + 1
              /\ v.entry.ahead \/ MovesBy(v, w, 1)
<1>1. CASE ~w.player.canWarp
  <2>1. v = Pass(w)
    BY <1>1 DEF Arrive
  <2> QED BY <1>1, <2>1, PassTells
<1>2. CASE w.player.canWarp /\ v \in Mishap(Landed(w))
  <2>1. Landed(w) \in Worlds /\ MovesBy(Landed(w), w, 1)
    BY LandedTells
  <2>2. v \in Worlds /\ v.entry.threw /\ Later(v, Landed(w))
    BY <1>2, <2>1, MishapTells
  <2> QED BY <2>1, <2>2, LaterTwice DEF MovesBy
<1>3. ASSUME NEW a, v \in IF a.ahead THEN SentAhead(Landing(w, a)) ELSE {Landing(w, a)},
             w.player.canWarp
      PROVE  /\ v \in Worlds /\ Later(v, w) /\ Told(v)
             /\ v.entry.moves >= w.entry.moves + 1
             /\ v.entry.ahead \/ MovesBy(v, w, 1)
  <2>1. Landing(w, a) \in Worlds /\ MovesBy(Landing(w, a), w, 1) /\ Told(Landing(w, a))
    BY LandingTells
  <2>2. CASE v = Landing(w, a)
    <3>1. v.entry.moves >= w.entry.moves + 1
      BY <2>1, <2>2, WorldParts DEF MovesBy
    <3> QED BY <2>1, <2>2, <3>1 DEF MovesBy
  <2>3. CASE v \in SentAhead(Landing(w, a))
    <3>1. v \in Worlds /\ Later(v, Landing(w, a)) /\ v.entry.ahead
      BY <2>1, <2>3, SentAheadTells
    <3>2. Later(v, w) /\ Told(v)
      BY <2>1, <3>1, LaterTwice DEF MovesBy, Later, Told
    <3>3. v.entry.moves >= w.entry.moves + 1
      BY <2>1, <3>1 DEF MovesBy, Later
    <3> QED BY <3>1, <3>2, <3>3
  <2> QED BY <1>3, <2>2, <2>3
<1>4. ASSUME w.player.canWarp
      PROVE  \/ v \in Mishap(Landed(w))
             \/ \E a \in Arrivals :
                  v \in IF a.ahead THEN SentAhead(Landing(w, a)) ELSE {Landing(w, a)}
  BY <1>4, ArriveWays
<1> QED BY <1>1, <1>2, <1>3, <1>4

(***************************************************************************)
(* A change that did not fail has told the client, or was ignored by the   *)
(* gate.  Through an open gate it moves the player, and once, unless the   *)
(* map sent him ahead: when the event has already moved him, the change it *)
(* was told of finds the gate shut.                                        *)
(***************************************************************************)
LEMMA ChangeTells ==
  ASSUME NEW w \in Worlds, NEW v \in Change(w)
  PROVE  /\ v \in Worlds /\ Later(v, w)
         /\ v.entry.threw \/ Told(v) \/ v.entry.ignored
         /\ ~v.entry.threw /\ w.player.canWarp /\ w.player.counter = 0 =>
              /\ v.entry.moves >= w.entry.moves + 1
              /\ v.entry.ahead \/ v.entry.moves = w.entry.moves + 1
<1> DEFINE x == Up(w)
<1>1. x \in Worlds /\ MovesBy(x, w, 0) /\ x.player.canWarp = w.player.canWarp
      /\ x.player.counter = w.player.counter + 1
  BY UpFact, StillSteps DEF Calm
<1>2. \/ v \in Mishap(x)
      \/ \E t \in ToldEvent(x) : \E u \in IF t.entry.threw THEN {t} ELSE Arrive(t) :
            v = IF u.entry.threw THEN u ELSE Down(u)
  BY DEF Change
<1> HIDE DEF x
<1>3. CASE v \in Mishap(x)
  BY <1>1, <1>3, MishapTells, LaterTwice DEF MovesBy
<1>4. ASSUME NEW t \in ToldEvent(x),
             NEW u \in IF t.entry.threw THEN {t} ELSE Arrive(t),
             v = IF u.entry.threw THEN u ELSE Down(u)
      PROVE  /\ v \in Worlds /\ Later(v, w)
             /\ v.entry.threw \/ Told(v) \/ v.entry.ignored
             /\ ~v.entry.threw /\ w.player.canWarp /\ w.player.counter = 0 =>
                  /\ v.entry.moves >= w.entry.moves + 1
                  /\ v.entry.ahead \/ v.entry.moves = w.entry.moves + 1
  <2>1. /\ t \in Worlds /\ Later(t, x) /\ Later(t, w)
        /\ ~t.entry.threw /\ x.player.canWarp /\ x.player.counter = 1 =>
             \/ t.player.canWarp /\ MovesBy(t, x, 0)
             \/ ~t.player.canWarp /\ MovesBy(t, x, 1) /\ Told(t)
    BY <1>1, ToldTells, LaterTwice DEF MovesBy
  <2>2. CASE t.entry.threw
    BY <1>4, <2>1, <2>2
  <2>3. CASE ~t.entry.threw
    <3>1. u \in Arrive(t)
      BY <1>4, <2>3
    <3>2. /\ u \in Worlds /\ Later(u, t)
          /\ u.entry.threw \/ Told(u) \/ u.entry.ignored
          /\ ~u.entry.threw /\ ~t.player.canWarp => MovesBy(u, t, 0)
          /\ ~u.entry.threw /\ t.player.canWarp =>
               /\ u.entry.moves >= t.entry.moves + 1
               /\ u.entry.ahead \/ MovesBy(u, t, 1)
      BY <2>1, <3>1, ArriveTells
    <3>3. Later(u, w)
      BY <2>1, <3>2, LaterTwice
    <3>4. /\ Down(u) \in Worlds /\ Down(u).client = u.client /\ Down(u).entry = u.entry
          /\ Later(Down(u), u)
      BY <3>2, DownFact, StillSteps DEF Calm, MovesBy
    <3>5. v \in Worlds /\ Later(v, w) /\ v.client = u.client /\ v.entry = u.entry
      BY <1>4, <3>2, <3>3, <3>4, LaterTwice
    <3>6. ASSUME ~v.entry.threw, w.player.canWarp, w.player.counter = 0
          PROVE  /\ u.entry.moves >= w.entry.moves + 1
                 /\ u.entry.ahead \/ u.entry.moves = w.entry.moves + 1
      <4>1. /\ x.player.canWarp /\ x.player.counter = 1 /\ ~u.entry.threw
            /\ x.entry.moves = w.entry.moves /\ w.entry.moves \in Nat
        BY <1>1, <3>5, <3>6, WorldParts DEF MovesBy
      <4>2. CASE t.player.canWarp /\ MovesBy(t, x, 0)
        BY <3>2, <4>1, <4>2 DEF MovesBy
      <4>3. CASE ~t.player.canWarp /\ MovesBy(t, x, 1)
        BY <3>2, <4>1, <4>3 DEF MovesBy
      <4> QED BY <2>1, <2>3, <4>1, <4>2, <4>3
    <3>7. v.entry.threw \/ Told(v) \/ v.entry.ignored
      BY <3>2, <3>5 DEF Told
    <3> QED BY <3>5, <3>6, <3>7
  <2> QED BY <2>2, <2>3
<1> QED BY <1>2, <1>3, <1>4

LEMMA OverlapTells ==
  ASSUME NEW w \in Worlds, NEW v \in Overlap(w)
  PROVE  v \in Worlds /\ Later(v, w) /\ Told(v)
<1>1. PICK g \in Races :
        v = Gated(Missed(IF g.twice THEN Landed(Landed(w)) ELSE Landed(w)), g.counter, g.canWarp)
  BY DEF Overlap
<1> DEFINE x == IF g.twice THEN Landed(Landed(w)) ELSE Landed(w)
<1>2. x \in Worlds /\ Later(x, w) /\ Told(x)
  <2>1. Landed(w) \in Worlds /\ Later(Landed(w), w) /\ Told(Landed(w))
    BY LandedTells DEF MovesBy
  <2>2. Landed(Landed(w)) \in Worlds /\ Later(Landed(Landed(w)), Landed(w))
        /\ Told(Landed(Landed(w)))
    BY <2>1, LandedTells DEF MovesBy
  <2>3. Later(Landed(Landed(w)), w)
    BY <2>1, <2>2, LaterTwice
  <2> QED BY <2>1, <2>2, <2>3
<1> HIDE DEF x
<1>3. Missed(x) \in Worlds /\ Later(Missed(x), x)
  BY <1>2, MissedFact, StillSteps DEF MovesBy
<1>4. g.counter \in Int /\ g.canWarp \in BOOLEAN
  BY DEF Races
<1>5. v = Gated(Missed(x), g.counter, g.canWarp)
  BY <1>1 DEF x
<1>6. v \in Worlds /\ Later(v, Missed(x))
  BY <1>3, <1>4, <1>5, GatedFact, StillSteps DEF Calm, MovesBy
<1>7. Later(Missed(x), w)
  BY <1>2, <1>3, LaterTwice
<1>8. Told(v)
  BY <1>2, <1>3, <1>6 DEF Later, Told
<1> QED BY <1>3, <1>6, <1>7, <1>8, LaterTwice

\* Either kind, from a sound world; nothing is claimed of the moves once there was a mishap.
LEMMA MovesTells ==
  ASSUME NEW w, Sound(w), ~w.entry.threw, NEW v \in Moves(w)
  PROVE  /\ v \in Worlds /\ Later(v, w) /\ (v.mishaps = 0 => w.mishaps = 0)
         /\ v.entry.threw \/ Told(v) \/ v.entry.ignored
         /\ v.mishaps = 0 => /\ ~v.entry.threw
                             /\ v.entry.moves >= w.entry.moves + 1
                             /\ v.entry.ahead \/ v.entry.moves = w.entry.moves + 1
<1>1. w \in Worlds /\ w.mishaps \in Nat
  BY WorldParts DEF Sound
<1>2. CASE v \in Change(w)
  <2>1. Whole(v, w) \/ Failed(v, w, 3)
    BY <1>1, <1>2, ChangeOutcome
  <2>2. CASE Failed(v, w, 3)
    <3>1. v.mishaps # 0 /\ v.entry.threw
      BY <1>1, <2>2 DEF Failed
    <3> QED BY <1>1, <1>2, <3>1, ChangeTells
  <2>3. CASE Whole(v, w)
    <3>1. v.mishaps = w.mishaps /\ ~v.entry.threw
      BY <2>3 DEF Whole, Even, Calm
    <3>2. v.mishaps = 0 => w.player.canWarp /\ w.player.counter = 0
      BY <3>1 DEF Sound
    <3> QED BY <1>1, <1>2, <3>1, <3>2, ChangeTells
  <2> QED BY <2>1, <2>2, <2>3
<1>3. CASE v \in Overlap(w)
  <2>1. v.mishaps # 0
    BY <1>1, <1>3, OverlapOutcome
  <2> QED BY <1>1, <1>3, <2>1, OverlapTells
<1> QED BY <1>2, <1>3 DEF Moves
-----------------------------------------------------------------------------
(* The rest of a way, when its next step is done.                          *)

LEMMA TailSteps ==
  ASSUME NEW s \in Seq(Steps), s # <<>>
  PROVE  /\ Len(s) \in Nat /\ Len(s) >= 1 /\ Head(s) = s[1]
         /\ DOMAIN s = 1 .. Len(s) /\ DOMAIN Tail(s) = 1 .. Len(s) - 1
         /\ \A i \in DOMAIN Tail(s) : i \in Nat /\ i + 1 \in DOMAIN s /\ Tail(s)[i] = s[i + 1]
         /\ \A i \in DOMAIN s : i \in Nat /\ (i # 1 => i - 1 \in DOMAIN Tail(s)
                                                       /\ Tail(s)[i - 1] = s[i])
<1>1. \A S : \A q \in Seq(S) : q # <<>> =>
        /\ Len(q) \in Nat /\ Len(q) >= 1 /\ Head(q) = q[1]
        /\ DOMAIN q = 1 .. Len(q) /\ DOMAIN Tail(q) = 1 .. Len(q) - 1
        /\ \A i \in 1 .. Len(q) - 1 : Tail(q)[i] = q[i + 1]
  BY SMT
<1>2. /\ Len(s) \in Nat /\ Len(s) >= 1 /\ Head(s) = s[1]
      /\ DOMAIN s = 1 .. Len(s) /\ DOMAIN Tail(s) = 1 .. Len(s) - 1
      /\ \A i \in 1 .. Len(s) - 1 : Tail(s)[i] = s[i + 1]
  BY <1>1
<1>3. ASSUME NEW i \in DOMAIN Tail(s)
      PROVE  i \in Nat /\ i + 1 \in DOMAIN s /\ Tail(s)[i] = s[i + 1]
  BY <1>2
<1>4. ASSUME NEW i \in DOMAIN s, i # 1
      PROVE  i - 1 \in DOMAIN Tail(s) /\ Tail(s)[i - 1] = s[i]
  <2>1. i - 1 \in 1 .. Len(s) - 1 /\ (i - 1) + 1 = i
    BY <1>2, <1>4
  <2> QED BY <1>2, <2>1
<1>5. \A i \in DOMAIN s : i \in Nat
  BY <1>2
<1> QED BY <1>2, <1>3, <1>4, <1>5

LEMMA NoRest ==
  /\ ~Telling(<<>>) /\ ~Unfailing(<<>>) /\ MovesOnce(<<>>) /\ PaysToGo(<<>>)
  /\ \A i \in DOMAIN <<>> : <<>>[i] \notin Warps
<1>1. DOMAIN <<>> = {}
  OBVIOUS
<1> QED BY <1>1 DEF Telling, Unfailing, MovesOnce, PaysToGo

LEMMA RestTells ==
  ASSUME NEW s \in Seq(Steps), s # <<>>, Telling(s), Head(s) \notin Answering
  PROVE  Telling(Tail(s))
<1>1. PICK i \in DOMAIN s : s[i] \in Answering
  BY DEF Telling
<1>2. i # 1
  BY <1>1, TailSteps
<1>3. i - 1 \in DOMAIN Tail(s) /\ Tail(s)[i - 1] = s[i]
  BY <1>2, TailSteps
<1> QED BY <1>1, <1>3 DEF Telling

LEMMA RestMovesOnce ==
  ASSUME NEW s \in Seq(Steps), s # <<>>, MovesOnce(s)
  PROVE  /\ MovesOnce(Tail(s))
         /\ Head(s) \in Warps => \A i \in DOMAIN Tail(s) : Tail(s)[i] \notin Warps
<1>1. ASSUME NEW i \in DOMAIN Tail(s), NEW j \in DOMAIN Tail(s),
             Tail(s)[i] \in Warps, Tail(s)[j] \in Warps
      PROVE  i = j
  <2>1. /\ i \in Nat /\ i + 1 \in DOMAIN s /\ s[i + 1] \in Warps
        /\ j \in Nat /\ j + 1 \in DOMAIN s /\ s[j + 1] \in Warps
    BY <1>1, TailSteps
  <2>2. i + 1 = j + 1
    BY <2>1 DEF MovesOnce
  <2> QED BY <2>1, <2>2
<1>2. ASSUME Head(s) \in Warps, NEW i \in DOMAIN Tail(s), Tail(s)[i] \in Warps
      PROVE  FALSE
  <2>1. 1 \in DOMAIN s /\ s[1] \in Warps
    BY <1>2, TailSteps
  <2>2. i \in Nat /\ i >= 1 /\ i + 1 \in DOMAIN s /\ s[i + 1] \in Warps
    BY <1>2, TailSteps
  <2>3. i + 1 = 1
    BY <2>1, <2>2 DEF MovesOnce
  <2> QED BY <2>2, <2>3
<1> QED BY <1>1, <1>2 DEF MovesOnce

LEMMA RestUnfailing ==
  ASSUME NEW s \in Seq(Steps), s # <<>>, Unfailing(s), Head(s) \notin Warps
  PROVE  Unfailing(Tail(s)) /\ Head(s) \notin MayThrow
<1>1. PICK j \in DOMAIN s : s[j] \in Warps /\ \A k \in DOMAIN s : k < j => s[k] \notin MayThrow
  BY DEF Unfailing
<1>2. j # 1 /\ j \in Nat /\ j >= 1 /\ 1 \in DOMAIN s /\ Head(s) = s[1]
  BY <1>1, TailSteps
<1>3. j - 1 \in DOMAIN Tail(s) /\ Tail(s)[j - 1] = s[j]
  BY <1>2, TailSteps
<1>4. ASSUME NEW k \in DOMAIN Tail(s), k < j - 1
      PROVE  Tail(s)[k] \notin MayThrow
  <2>1. k \in Nat /\ k + 1 \in DOMAIN s /\ Tail(s)[k] = s[k + 1]
    BY TailSteps
  <2>2. k + 1 < j
    BY <1>2, <1>4, <2>1
  <2> QED BY <1>1, <2>1, <2>2
<1>5. Head(s) \notin MayThrow
  BY <1>1, <1>2
<1> QED BY <1>1, <1>3, <1>4, <1>5 DEF Unfailing

LEMMA RestPays ==
  ASSUME NEW s \in Seq(Steps), s # <<>>, PaysToGo(s), Head(s) \notin Warps
  PROVE  /\ PaysToGo(Tail(s))
         /\ Head(s) # "take, perhaps"
         /\ Head(s) = "take" => Unfailing(Tail(s))
<1>1. 1 \in DOMAIN s /\ Head(s) = s[1]
  BY TailSteps
<1>2. ASSUME NEW i \in DOMAIN Tail(s), Tail(s)[i] \in {"take", "take, perhaps"}
      PROVE  \/ \E j \in DOMAIN Tail(s) : j < i /\ Tail(s)[j] \in Warps
             \/ /\ Tail(s)[i] = "take"
                /\ \E j \in DOMAIN Tail(s) :
                     /\ i < j /\ Tail(s)[j] \in Warps
                     /\ \A k \in DOMAIN Tail(s) : i < k /\ k < j => Tail(s)[k] \notin MayThrow
  <2>1. i \in Nat /\ i + 1 \in DOMAIN s /\ Tail(s)[i] = s[i + 1]
    BY TailSteps
  <2>2. CASE \E j \in DOMAIN s : j < i + 1 /\ s[j] \in Warps
    <3>1. PICK j \in DOMAIN s : j < i + 1 /\ s[j] \in Warps
      BY <2>2
    <3>2. j # 1 /\ j \in Nat
      BY <1>1, <3>1, TailSteps
    <3>3. j - 1 \in DOMAIN Tail(s) /\ Tail(s)[j - 1] = s[j] /\ j - 1 < i
      BY <2>1, <3>1, <3>2, TailSteps
    <3> QED BY <3>1, <3>3
  <2>3. CASE /\ s[i + 1] = "take"
             /\ \E j \in DOMAIN s : /\ i + 1 < j /\ s[j] \in Warps
                                    /\ \A k \in DOMAIN s : i + 1 < k /\ k < j => s[k] \notin MayThrow
    <3>1. PICK j \in DOMAIN s : /\ i + 1 < j /\ s[j] \in Warps
                                /\ \A k \in DOMAIN s : i + 1 < k /\ k < j => s[k] \notin MayThrow
      BY <2>3
    <3>2. j # 1 /\ j \in Nat
      BY <1>1, <3>1, TailSteps
    <3>3. j - 1 \in DOMAIN Tail(s) /\ Tail(s)[j - 1] = s[j] /\ i < j - 1
      BY <2>1, <3>1, <3>2, TailSteps
    <3>4. ASSUME NEW k \in DOMAIN Tail(s), i < k, k < j - 1
          PROVE  Tail(s)[k] \notin MayThrow
      <4>1. k \in Nat /\ k + 1 \in DOMAIN s /\ Tail(s)[k] = s[k + 1]
        BY TailSteps
      <4>2. i + 1 < k + 1 /\ k + 1 < j
        BY <2>1, <3>2, <3>4, <4>1
      <4> QED BY <3>1, <4>1, <4>2
    <3> QED BY <2>1, <2>3, <3>1, <3>3, <3>4
  <2> QED BY <1>2, <2>1, <2>2, <2>3 DEF PaysToGo
<1>3. ASSUME Head(s) \in {"take", "take, perhaps"}
      PROVE  Head(s) = "take" /\ Unfailing(Tail(s))
  <2>1. ~\E j \in DOMAIN s : j < 1 /\ s[j] \in Warps
    BY TailSteps
  <2>2. PICK j \in DOMAIN s : /\ 1 < j /\ s[j] \in Warps
                              /\ \A k \in DOMAIN s : 1 < k /\ k < j => s[k] \notin MayThrow
    BY <1>1, <1>3, <2>1 DEF PaysToGo
  <2>3. s[1] = "take"
    BY <1>1, <1>3, <2>1 DEF PaysToGo
  <2>4. j \in Nat /\ j # 1
    BY <2>2, TailSteps
  <2>5. j - 1 \in DOMAIN Tail(s) /\ Tail(s)[j - 1] = s[j]
    BY <2>4, TailSteps
  <2>6. ASSUME NEW k \in DOMAIN Tail(s), k < j - 1
        PROVE  Tail(s)[k] \notin MayThrow
    <3>1. k \in Nat /\ k >= 1 /\ k + 1 \in DOMAIN s /\ Tail(s)[k] = s[k + 1]
      BY TailSteps
    <3>2. 1 < k + 1 /\ k + 1 < j
      BY <2>4, <2>6, <3>1
    <3> QED BY <2>2, <3>1, <3>2
  <2> QED BY <1>1, <2>2, <2>3, <2>5, <2>6 DEF Unfailing
<1> QED BY <1>2, <1>3 DEF PaysToGo
-----------------------------------------------------------------------------
(* The steps.                                                              *)

Promised == WillBeTold /\ MovedOnce /\ PaidToGo

LEMMA EntryFields ==
  /\ \A who : /\ EntryOf(who).who = who /\ EntryOf(who).moves = 0 /\ EntryOf(who).took = FALSE
              /\ EntryOf(who).ahead = FALSE
  /\ NoEntry.moves = 0 /\ NoEntry.took = FALSE
  /\ \A e \in Entries :
       /\ Threw(e).who = e.who /\ Threw(e).moves = e.moves /\ Threw(e).took = e.took
       /\ Threw(e).ahead = e.ahead /\ Threw(e).refused = e.refused /\ Threw(e).ignored = e.ignored
       /\ Took(e).who = e.who /\ Took(e).moves = e.moves /\ Took(e).threw = e.threw
       /\ Took(e).ahead = e.ahead /\ Took(e).refused = e.refused /\ Took(e).ignored = e.ignored
<1>1. \A who, b, n :
        LET e == [[who |-> Nobody, moves |-> n, took |-> b, ahead |-> b, refused |-> b,
                   ignored |-> b, threw |-> b] EXCEPT !.who = who]
        IN  e.who = who /\ e.moves = n /\ e.took = b /\ e.ahead = b
  BY SMT
<1>2. \A e \in Entries : \A b :
        LET f == [e EXCEPT !.threw = b]
        IN  /\ f.who = e.who /\ f.moves = e.moves /\ f.took = e.took
            /\ f.ahead = e.ahead /\ f.refused = e.refused /\ f.ignored = e.ignored
  BY SMT DEF Entries
<1>3. \A e \in Entries : \A b :
        LET f == [e EXCEPT !.took = b]
        IN  /\ f.who = e.who /\ f.moves = e.moves /\ f.threw = e.threw
            /\ f.ahead = e.ahead /\ f.refused = e.refused /\ f.ignored = e.ignored
  BY SMT DEF Entries
<1>4. NoEntry.moves = 0 /\ NoEntry.took = FALSE
  <2>1. \A who, b, n :
          LET e == [who |-> who, moves |-> n, took |-> b, ahead |-> b, refused |-> b,
                    ignored |-> b, threw |-> b]
          IN  e.moves = n /\ e.took = b
    BY SMT
  <2> QED BY <2>1, Zenon DEF NoEntry
<1>5. \A who : /\ EntryOf(who).who = who /\ EntryOf(who).moves = 0 /\ EntryOf(who).took = FALSE
               /\ EntryOf(who).ahead = FALSE
  BY <1>1, Zenon DEF EntryOf, NoEntry
<1>6. \A e \in Entries :
        /\ Threw(e).who = e.who /\ Threw(e).moves = e.moves /\ Threw(e).took = e.took
        /\ Threw(e).ahead = e.ahead /\ Threw(e).refused = e.refused /\ Threw(e).ignored = e.ignored
  BY <1>2 DEF Threw
<1>7. \A e \in Entries :
        /\ Took(e).who = e.who /\ Took(e).moves = e.moves /\ Took(e).threw = e.threw
        /\ Took(e).ahead = e.ahead /\ Took(e).refused = e.refused /\ Took(e).ignored = e.ignored
  BY <1>3 DEF Took
<1> QED BY <1>4, <1>5, <1>6, <1>7

LEMMA RunFields ==
  /\ Broken.on = TRUE /\ Broken.todo = <<>> /\ Broken.fate = "breaks" /\ NoRun.on = FALSE
  /\ \A s, f : LET r == [on |-> TRUE, todo |-> s, fate |-> f]
               IN  r.on = TRUE /\ r.todo = s /\ r.fate = f
  /\ \A r \in RunStates : \A s : LET t == [r EXCEPT !.todo = s]
                                 IN  t.on = r.on /\ t.todo = s /\ t.fate = r.fate
<1>1. \A b, s, f : LET r == [on |-> b, todo |-> s, fate |-> f]
                   IN  r.on = b /\ r.todo = s /\ r.fate = f
  BY SMT
<1>2. \A r \in RunStates : \A s : LET t == [r EXCEPT !.todo = s]
                                  IN  t.on = r.on /\ t.todo = s /\ t.fate = r.fate
  <2>1. \A A, B, C : \A r \in [on : A, todo : B, fate : C] : \A s :
          LET t == [r EXCEPT !.todo = s] IN t.on = r.on /\ t.todo = s /\ t.fate = r.fate
    BY SMT
  <2> QED BY <2>1, Zenon DEF RunStates
<1>3. /\ Broken.on = TRUE /\ Broken.todo = <<>> /\ Broken.fate = "breaks" /\ NoRun.on = FALSE
  BY <1>1, Zenon DEF Broken, NoRun
<1> QED BY <1>1, <1>2, <1>3, Zenon

\* A script goes on with the rest of its way, or breaks off.
LEMMA GoesOn ==
  ASSUME IInv, run.on, run.todo # <<>>, Proceed
  PROVE  /\ run.todo \in Seq(Steps) /\ run'.on
         /\ entry'.threw => run'.todo = <<>> /\ run'.fate = "breaks"
         /\ ~entry'.threw => run'.todo = Tail(run.todo) /\ run'.fate = run.fate
<1>1. run \in RunStates /\ run.todo \in Seq(Steps)
  BY DEF IInv, RunStates
<1>2. CASE entry'.threw
  BY <1>1, <1>2, RunFields DEF Proceed
<1>3. CASE ~entry'.threw
  <2>1. run' = [run EXCEPT !.todo = Tail(run.todo)]
    BY <1>3 DEF Proceed
  <2> QED BY <1>1, <1>3, <2>1, RunFields
<1> QED BY <1>2, <1>3

LEMMA EntersPromised == ASSUME PInv, EnterPortal PROVE Promised'
<1>1. PICK who \in PortalNames : \E b \in Ways(PortalTables[who]) :
        \/ /\ run' = [on |-> TRUE, todo |-> Program(b), fate |-> b.fate]
           /\ entry' = EntryOf(who)
        \/ run' = Broken /\ entry' = Threw(EntryOf(who))
  BY Zenon DEF EnterPortal
<1>2. PICK b \in Ways(PortalTables[who]) :
        \/ /\ run' = [on |-> TRUE, todo |-> Program(b), fate |-> b.fate]
           /\ entry' = EntryOf(who)
        \/ run' = Broken /\ entry' = Threw(EntryOf(who))
  BY <1>1
<1>3. EntryOf(who) \in Entries
  BY EntryFacts DEF Entrances
<1>4. entry'.who = who /\ entry'.moves = 0 /\ entry'.took = FALSE
  BY <1>2, <1>3, EntryFields
<1>5. \/ run'.on /\ run'.todo = Program(b) /\ run'.fate = b.fate
      \/ run'.on /\ run'.todo = <<>> /\ run'.fate = "breaks"
  <2>1. CASE run' = [on |-> TRUE, todo |-> Program(b), fate |-> b.fate]
    BY <2>1, RunFields, Zenon
  <2>2. CASE run' = Broken
    BY <2>2, RunFields
  <2> QED BY <1>2, <2>1, <2>2
<1>6. /\ who \notin Mute /\ b.fate = "through" => Telling(Program(b))
      /\ who \notin Restless => MovesOnce(Program(b))
      /\ who \notin Tolls => PaysToGo(Program(b))
  BY WaysAssumption
<1> QED BY <1>4, <1>5, <1>6, NoRest DEF Promised, WillBeTold, MovedOnce, PaidToGo, Excused

\* A step that changes the map.
LEMMA WarpPromised ==
  ASSUME PInv, run.on, run.todo # <<>>, Head(run.todo) \in Warps,
         NEW w, Sound(w), w.client = client, w.entry = entry, w.mishaps = mishaps,
         NEW v \in Moves(w), Becomes(v), Proceed
  PROVE  Promised'
<1>1. ~entry.threw /\ entry.moves \in Nat
  BY DEF PInv, IInv, Going, Kept, Entries
<1>2. /\ client' = v.client /\ entry' = v.entry /\ mishaps' = v.mishaps
  BY DEF Becomes
<1>3. /\ Later(v, w) /\ (mishaps' = 0 => mishaps = 0)
      /\ entry'.threw \/ client' # "waiting" \/ entry'.ignored
      /\ mishaps' = 0 => /\ ~entry'.threw
                         /\ entry'.moves >= entry.moves + 1
                         /\ entry'.ahead \/ entry'.moves = entry.moves + 1
  BY <1>1, <1>2, MovesTells DEF Told
<1>4. /\ run.todo \in Seq(Steps) /\ run'.on
      /\ entry'.threw => run'.todo = <<>> /\ run'.fate = "breaks"
      /\ ~entry'.threw => run'.todo = Tail(run.todo) /\ run'.fate = run.fate
  BY GoesOn DEF PInv
<1>5. WillBeTold'
  BY <1>3, <1>4 DEF WillBeTold, Excused
<1>6. ASSUME mishaps' = 0, ~entry'.ahead, entry'.who \notin Restless
      PROVE  /\ entry'.moves <= 1 /\ MovesOnce(run'.todo)
             /\ \A i \in DOMAIN run'.todo : run'.todo[i] \notin Warps
  <2>1. mishaps = 0 /\ ~entry.ahead /\ entry.who \notin Restless
    BY <1>2, <1>3, <1>6 DEF Later
  <2>2. /\ entry.moves <= 1 /\ MovesOnce(run.todo)
        /\ entry.moves = 1 => \A i \in DOMAIN run.todo : run.todo[i] \notin Warps
    BY <2>1 DEF PInv, MovedOnce
  <2>3. entry.moves # 1
    BY <1>4, <2>2, TailSteps
  <2>4. entry'.moves = 1
    BY <1>1, <1>3, <1>6, <2>2, <2>3
  <2> QED BY <1>3, <1>4, <1>6, <2>2, <2>4, RestMovesOnce
<1>7. mishaps' = 0 => entry'.moves # 0
  BY <1>1, <1>3
<1> QED BY <1>5, <1>6, <1>7 DEF Promised, MovedOnce, PaidToGo

\* A step that does not.
LEMMA StepPromised ==
  ASSUME PInv, run.on, run.todo # <<>>, Head(run.todo) \notin Warps, Proceed,
         mishaps' = mishaps, entry'.who = entry.who, entry'.moves = entry.moves,
         entry'.ahead = entry.ahead,
         entry.refused => entry'.refused, entry.ignored => entry'.ignored,
         client # "waiting" => client' # "waiting",
         Head(run.todo) \in Answering => client' # "waiting" \/ entry'.refused,
         entry'.took = entry.took \/ Head(run.todo) \in {"take", "take, perhaps"},
         entry'.threw => Head(run.todo) \in MayThrow
  PROVE  Promised'
<1>1. /\ run.todo \in Seq(Steps) /\ run'.on
      /\ entry'.threw => run'.todo = <<>> /\ run'.fate = "breaks"
      /\ ~entry'.threw => run'.todo = Tail(run.todo) /\ run'.fate = run.fate
  BY GoesOn DEF PInv
<1>2. WillBeTold'
  <2>1. CASE Excused \/ run.fate # "through"
    BY <1>1, <2>1 DEF WillBeTold, Excused
  <2>2. CASE Head(run.todo) \in Answering
    BY <2>2 DEF WillBeTold, Excused
  <2>3. CASE Telling(run.todo) /\ Head(run.todo) \notin Answering
    BY <1>1, <2>3, RestTells DEF WillBeTold
  <2>4. CASE client # "waiting"
    BY <2>4 DEF WillBeTold
  <2> QED BY <2>1, <2>2, <2>3, <2>4 DEF PInv, WillBeTold
<1>3. MovedOnce'
  <2> SUFFICES ASSUME mishaps = 0, ~entry.ahead, entry.who \notin Restless
               PROVE  /\ entry.moves <= 1 /\ MovesOnce(run'.todo)
                      /\ entry.moves = 1 => \A i \in DOMAIN run'.todo : run'.todo[i] \notin Warps
    BY DEF MovedOnce
  <2>1. /\ entry.moves <= 1 /\ MovesOnce(run.todo)
        /\ entry.moves = 1 => \A i \in DOMAIN run.todo : run.todo[i] \notin Warps
    BY DEF PInv, MovedOnce
  <2>2. MovesOnce(Tail(run.todo))
    BY <1>1, <2>1, RestMovesOnce
  <2>3. ASSUME entry.moves = 1, NEW i \in DOMAIN Tail(run.todo)
        PROVE  Tail(run.todo)[i] \notin Warps
    BY <1>1, <2>1, <2>3, TailSteps
  <2> QED BY <1>1, <2>1, <2>2, <2>3, NoRest
<1>4. PaidToGo'
  <2> SUFFICES ASSUME mishaps = 0, entry.who \notin Tolls, entry.moves = 0
               PROVE  PaysToGo(run'.todo) /\ (entry'.took => Unfailing(run'.todo))
    BY <1>1 DEF PaidToGo
  <2>1. PaysToGo(run.todo) /\ (entry.took => Unfailing(run.todo))
    BY DEF PInv, PaidToGo
  <2>2. /\ PaysToGo(Tail(run.todo)) /\ Head(run.todo) # "take, perhaps"
        /\ Head(run.todo) = "take" => Unfailing(Tail(run.todo))
    BY <1>1, <2>1, RestPays
  <2>3. entry.took => Unfailing(Tail(run.todo)) /\ Head(run.todo) \notin MayThrow
    BY <1>1, <2>1, RestUnfailing
  <2>4. CASE entry'.threw
    <3>1. ~entry'.took
      BY <2>2, <2>3, <2>4 DEF MayThrow
    <3> QED BY <1>1, <2>4, <3>1, NoRest
  <2>5. CASE ~entry'.threw
    BY <1>1, <2>2, <2>3, <2>5
  <2> QED BY <2>4, <2>5
<1> QED BY <1>2, <1>3, <1>4 DEF Promised

LEMMA MovesPromised ==
  ASSUME PInv, DoWarp \/ DoInstance
  PROVE  Promised'
<1>1. World \in Worlds /\ Sound(World)
  BY SoundWorld DEF PInv, IInv, Sound
<1>2. /\ World.client = client /\ World.entry = entry /\ World.mishaps = mishaps
  BY DEF World
<1>3. CASE DoWarp
  <2>1. /\ run.on /\ run.todo # <<>> /\ Head(run.todo) \in Warps /\ Proceed
    BY <1>3 DEF DoWarp, Doing, Warps
  <2>2. PICK v \in Moves(World) : Becomes(v)
    BY <1>3 DEF DoWarp
  <2> QED BY <1>1, <1>2, <2>1, <2>2, WarpPromised
<1>4. CASE DoInstance
  <2>1. /\ run.on /\ run.todo # <<>> /\ Head(run.todo) \in Warps /\ Proceed
    BY <1>4 DEF DoInstance, Doing, Warps
  <2>2. PICK v \in Moves(Joined(World)) : Becomes(v)
    BY <1>4 DEF DoInstance
  <2>3. Sound(Joined(World)) /\ Joined(World).mishaps = World.mishaps
    BY <1>1, JoinedFact, SoundSame DEF Same, Calm
  <2>4. Joined(World).client = World.client /\ Joined(World).entry = World.entry
    BY <1>1, StillSteps
  <2> QED BY <1>2, <2>1, <2>2, <2>3, <2>4, WarpPromised
<1> QED BY <1>3, <1>4

LEMMA StepsPromised ==
  ASSUME PInv, DoNpc \/ DoEnable \/ DoToEvent \/ DoDispose \/ DoTake
  PROVE  Promised'
<1>1. /\ run.on /\ run.todo # <<>> /\ Proceed /\ Head(run.todo) \notin Warps
  BY DEF DoNpc, DoEnable, DoToEvent, DoDispose, DoTake, Doing, Warps
<1>2. World \in Worlds /\ entry \in Entries /\ ~entry.threw
  BY <1>1, SoundWorld DEF PInv, IInv, Sound, Kept, Going
<1>3. ASSUME NEW v, Becomes(v), MovesBy(v, World, 0), Same(v, World),
             Head(run.todo) \in Answering => Told(v) \/ v.entry.refused
      PROVE  Promised'
  <2>1. /\ v.mishaps = World.mishaps /\ v.entry.threw = World.entry.threw
    BY <1>3 DEF Same, Calm
  <2>2. /\ client' = v.client /\ entry' = v.entry /\ mishaps' = v.mishaps
        /\ World.client = client /\ World.entry = entry /\ World.mishaps = mishaps
    BY <1>3 DEF Becomes, World
  <2>3. entry.moves \in Nat
    BY <1>2 DEF Entries
  <2>4. /\ v.entry.who = World.entry.who /\ v.entry.took = World.entry.took
        /\ v.entry.ahead = World.entry.ahead
        /\ v.entry.moves = World.entry.moves + 0
        /\ World.entry.refused => v.entry.refused
        /\ World.entry.ignored => v.entry.ignored
        /\ World.client # "waiting" => v.client # "waiting"
        /\ Head(run.todo) \in Answering => v.client # "waiting" \/ v.entry.refused
    BY <1>3 DEF MovesBy, Later, Told
  <2>5. /\ entry'.who = entry.who /\ entry'.took = entry.took /\ entry'.ahead = entry.ahead
        /\ entry'.moves = entry.moves + 0
        /\ entry.refused => entry'.refused
        /\ entry.ignored => entry'.ignored
        /\ client # "waiting" => client' # "waiting"
        /\ Head(run.todo) \in Answering => client' # "waiting" \/ entry'.refused
    BY <2>2, <2>4
  <2>6. entry'.moves = entry.moves
    BY <2>3, <2>5
  <2>7. mishaps' = mishaps /\ ~entry'.threw
    BY <1>2, <2>1, <2>2
  <2> QED BY <1>1, <2>5, <2>6, <2>7, StepPromised
<1>4. ASSUME mishaps' = mishaps, entry'.who = entry.who, entry'.moves = entry.moves,
             entry'.ahead = entry.ahead, entry'.refused = entry.refused,
             entry'.ignored = entry.ignored, client # "waiting" => client' # "waiting",
             Head(run.todo) \in Answering => client' # "waiting",
             entry'.took = entry.took \/ Head(run.todo) \in {"take", "take, perhaps"},
             entry'.threw => Head(run.todo) \in MayThrow
      PROVE  Promised'
  BY <1>1, <1>4, StepPromised
<1>5. CASE DoEnable
  <2>1. UNCHANGED <<mishaps, entry>> /\ client' # "waiting"
    BY <1>5 DEF DoEnable
  <2> QED BY <1>2, <1>4, <2>1
<1>6. CASE DoDispose
  <2>1. UNCHANGED <<client, mishaps, entry>> /\ Head(run.todo) = "dispose"
    BY <1>6 DEF DoDispose, Doing
  <2> QED BY <1>2, <1>4, <2>1 DEF Answering, Warps
<1>7. CASE DoToEvent
  <2>1. /\ UNCHANGED <<client, mishaps>> /\ Head(run.todo) = "to the event"
        /\ entry' \in {entry, Threw(entry)}
    BY <1>7 DEF DoToEvent, Doing
  <2>2. /\ entry'.who = entry.who /\ entry'.moves = entry.moves /\ entry'.took = entry.took
        /\ entry'.ahead = entry.ahead /\ entry'.refused = entry.refused
        /\ entry'.ignored = entry.ignored
    <3>1. CASE entry' = entry
      BY <3>1
    <3>2. CASE entry' = Threw(entry)
      BY <1>2, <3>2, EntryFields
    <3> QED BY <2>1, <3>1, <3>2
  <2>3. Head(run.todo) \notin Answering /\ Head(run.todo) \in MayThrow
    BY <2>1 DEF Answering, Warps, MayThrow
  <2> QED BY <1>4, <2>1, <2>2, <2>3
<1>8. CASE DoTake
  <2>1. /\ UNCHANGED <<client, mishaps>> /\ Head(run.todo) \in {"take", "take, perhaps"}
        /\ entry' \in {Took(entry), Threw(entry), Threw(Took(entry))}
        /\ entry' = Took(entry) \/ Head(run.todo) = "take, perhaps"
    BY <1>8 DEF DoTake, Doing
  <2>2. /\ Took(entry) \in Entries
        /\ entry'.threw => Head(run.todo) \in MayThrow
    BY <1>2, <2>1, EntryFacts DEF MayThrow
  <2>3. /\ entry'.who = entry.who /\ entry'.moves = entry.moves
        /\ entry'.ahead = entry.ahead /\ entry'.refused = entry.refused
        /\ entry'.ignored = entry.ignored
    <3>1. CASE entry' = Took(entry)
      BY <1>2, <3>1, EntryFields
    <3>2. CASE entry' = Threw(entry)
      BY <1>2, <3>2, EntryFields
    <3>3. CASE entry' = Threw(Took(entry))
      BY <1>2, <2>2, <3>3, EntryFields
    <3> QED BY <2>1, <3>1, <3>2, <3>3
  <2>4. Head(run.todo) \notin Answering
    BY <2>1 DEF Answering, Warps
  <2> QED BY <1>4, <2>1, <2>2, <2>3, <2>4
<1>9. CASE DoNpc
  <2>1. CASE Becomes(Opened(World))
    BY <1>2, <1>3, <2>1, OpenedTells, OpenedFact
  <2>2. CASE Head(run.todo) = "silent npc" /\ Becomes(Unheard(World))
    <3>1. Head(run.todo) \notin Answering
      BY <2>2 DEF Answering, Warps
    <3> QED BY <1>2, <1>3, <2>2, <3>1, UnheardTells, UnheardFact
  <2> QED BY <1>9, <2>1, <2>2 DEF DoNpc, Doing
<1> QED BY <1>5, <1>6, <1>7, <1>8, <1>9

\* What happens besides may answer the client, but makes it wait no longer than it did.
LEMMA AsidePromised ==
  ASSUME Promised, UNCHANGED <<entry, run>>, client' = "waiting" => client = "waiting",
         mishaps' = 0 => mishaps = 0
  PROVE  Promised'
<1>1. WillBeTold'
  BY DEF Promised, WillBeTold, Excused
<1>2. MovedOnce'
  BY DEF Promised, MovedOnce
<1>3. PaidToGo'
  BY DEF Promised, PaidToGo
<1> QED BY <1>1, <1>2, <1>3 DEF Promised

\* Once the client has been answered, the entry is over.
LEMMA OverPromised ==
  ASSUME ~run.on, UNCHANGED run, entry' = NoEntry, client' # "waiting"
  PROVE  Promised'
BY EntryFields DEF Promised, WillBeTold, MovedOnce, PaidToGo

LEMMA FinishPromised == ASSUME PInv, FinishScript PROVE Promised'
<1>1. /\ run.on /\ run.todo = <<>> /\ ~run'.on /\ UNCHANGED <<mishaps, entry>>
      /\ client' = "waiting" => client = "waiting" /\ run.fate = "through"
  BY RunFields DEF FinishScript
<1>2. WillBeTold'
  BY <1>1, NoRest DEF PInv, WillBeTold, Excused
<1>3. MovedOnce'
  BY <1>1 DEF PInv, MovedOnce
<1>4. PaidToGo'
  BY <1>1, NoRest DEF PInv, PaidToGo
<1> QED BY <1>2, <1>3, <1>4 DEF Promised

\* A change outside of a script: of an unanswered client, it has failed or was ignored.
LEMMA OutsidePromised ==
  ASSUME ~run.on, UNCHANGED run, NEW w, Sound(w), NEW who \in {Plain, Respawn},
         NEW v \in Moves(Asking(w, who)), Becomes(v) \/ Becomes(Enabled(v))
  PROVE  Promised'
<1>1. who \in Entrances
  BY DEF Entrances
<1>2. Sound(Asking(w, who)) /\ ~Asking(w, who).entry.threw
  BY <1>1, AskingSound
<1>3. Asking(w, who).entry = EntryOf(who)
  BY DEF Asking
<1>4. /\ EntryOf(who).who = who /\ EntryOf(who).moves = 0 /\ EntryOf(who).took = FALSE
  BY EntryFields
<1>5. /\ v \in Worlds /\ Later(v, Asking(w, who))
      /\ v.entry.threw \/ Told(v) \/ v.entry.ignored
      /\ v.mishaps = 0 => v.entry.ahead \/ v.entry.moves = 0 + 1
  BY <1>2, <1>3, <1>4, MovesTells
<1>6. v.entry.who = who /\ ~v.entry.took
  BY <1>3, <1>4, <1>5 DEF Later
<1>7. /\ entry' = v.entry /\ mishaps' = v.mishaps
      /\ client' = v.client \/ client' = "answered"
  <2>1. CASE Becomes(v)
    BY <2>1 DEF Becomes
  <2>2. CASE Becomes(Enabled(v))
    <3>1. \A c : LET u == [v EXCEPT !.client = c]
                 IN  u.client = c /\ u.entry = v.entry /\ u.mishaps = v.mishaps
      BY <1>5, SMT DEF Worlds
    <3>2. /\ Enabled(v).entry = v.entry /\ Enabled(v).mishaps = v.mishaps
          /\ Enabled(v).client = v.client \/ Enabled(v).client = "answered"
      BY <3>1, Zenon DEF Enabled
    <3> QED BY <2>2, <3>2 DEF Becomes
  <2> QED BY <2>1, <2>2
<1>8. WillBeTold'
  BY <1>5, <1>6, <1>7 DEF WillBeTold, Excused, Told
<1>9. MovedOnce'
  BY <1>5, <1>7 DEF MovedOnce
<1>10. PaidToGo'
  BY <1>6, <1>7 DEF PaidToGo
<1> QED BY <1>8, <1>9, <1>10 DEF Promised

\* A player who is turned away has not been moved and has paid nothing.
LEMMA TurnedPromised == ASSUME PInv, TurnAway PROVE Promised'
<1>1. ~run'.on
  BY DEF TurnAway, MayAct
<1>2. PICK who \in {Plain, Respawn} : entry' = [EntryOf(who) EXCEPT !.refused = TRUE]
  BY DEF TurnAway
<1>3. entry'.refused /\ entry'.moves = 0 /\ entry'.took = FALSE
  BY <1>2, TurnedFields, EntryFields DEF Entrances
<1> QED BY <1>1, <1>3 DEF Promised, WillBeTold, MovedOnce, PaidToGo, Excused

LEMMA MovedPromised == ASSUME PInv, MovedByOthers PROVE Promised'
<1>1. PICK w \in {World, Joined(World)} : \E v \in Change(Unasked(w)) :
        player' = v.player /\ client' = v.client /\ mishaps' = v.mishaps
  BY DEF MovedByOthers
<1>2. PICK v \in Change(Unasked(w)) :
        player' = v.player /\ client' = v.client /\ mishaps' = v.mishaps
  BY <1>1
<1>3. World \in Worlds /\ Sound(World)
  BY SoundWorld DEF PInv, IInv, Sound
<1>4. /\ World.client = client /\ World.mishaps = mishaps
  BY DEF World
<1>5. Sound(w) /\ w.client = client /\ w.mishaps = mishaps
  <2>1. CASE w = World
    BY <1>3, <1>4, <2>1
  <2>2. CASE w = Joined(World)
    <3>1. Sound(Joined(World)) /\ Joined(World).mishaps = World.mishaps
      BY <1>3, JoinedFact, SoundSame DEF Same, Calm
    <3>2. Joined(World).client = World.client
      BY <1>3, StillSteps
    <3> QED BY <1>4, <2>2, <3>1, <3>2
  <2> QED BY <2>1, <2>2
<1>6. /\ Sound(Unasked(w)) /\ ~Unasked(w).entry.threw
      /\ Unasked(w).client = w.client /\ Unasked(w).mishaps = w.mishaps
  <2>1. \A u \in Worlds : \A e \in Entries :
          LET x == [u EXCEPT !.entry = e]
          IN  /\ x \in Worlds /\ x.entry = e /\ x.player = u.player
              /\ x.mishaps = u.mishaps /\ x.client = u.client
    BY SMT DEF Worlds
  <2>2. w \in Worlds /\ NoEntry \in Entries /\ NoEntry.threw = FALSE
    BY <1>5, EntryFacts DEF Sound
  <2>3. /\ Unasked(w) \in Worlds /\ Unasked(w).entry = NoEntry
        /\ Unasked(w).player = w.player /\ Unasked(w).mishaps = w.mishaps
        /\ Unasked(w).client = w.client
    BY <2>1, <2>2 DEF Unasked
  <2> QED BY <1>5, <2>2, <2>3 DEF Sound
<1>7. Later(v, Unasked(w)) /\ (v.mishaps = 0 => Unasked(w).mishaps = 0)
  BY <1>2, <1>6, MovesTells DEF Moves
<1>8. /\ client' = "waiting" => client = "waiting"
      /\ mishaps' = 0 => mishaps = 0
  BY <1>2, <1>5, <1>6, <1>7 DEF Later
<1>9. UNCHANGED <<entry, run>> /\ Promised
  BY DEF MovedByOthers, PInv, Promised
<1> QED BY <1>8, <1>9, AsidePromised

LEMMA PromiseStarts == Init => PInv
<1> SUFFICES ASSUME Init PROVE PInv
  OBVIOUS
<1>1. client # "waiting" /\ ~run.on /\ entry.moves = 0 /\ entry.took = FALSE
  BY EntryFields, RunFields DEF Init
<1>2. WillBeTold /\ MovedOnce /\ PaidToGo
  BY <1>1 DEF WillBeTold, MovedOnce, PaidToGo
<1> QED BY <1>2, Initially DEF PInv

LEMMA PromiseLasts == ASSUME PInv, [Next]_vars PROVE PInv'
<1>1. IInv'
  BY Steady DEF PInv
<1>2. Promised
  BY DEF PInv, Promised
<1> SUFFICES Promised'
  BY <1>1 DEF PInv, Promised
<1>3. CASE EnterPortal
  BY <1>3, EntersPromised
<1>4. CASE DoWarp \/ DoInstance
  BY <1>4, MovesPromised
<1>5. CASE DoNpc \/ DoEnable \/ DoToEvent \/ DoDispose \/ DoTake
  BY <1>5, StepsPromised
<1>6. CASE FinishScript
  BY <1>6, FinishPromised
<1>7. Sound(World) /\ Sound(Left(World))
  <2>1. Sound(World) /\ World \in Worlds
    BY SoundWorld DEF PInv, IInv, Sound
  <2> QED BY <2>1, LeftFact, SoundSame
<1>8. CASE EnterPlainPortal
  <2>1. PICK v \in Moves(Asking(World, Plain)) : Becomes(v)
    BY <1>8 DEF EnterPlainPortal
  <2>2. ~run.on /\ UNCHANGED run
    BY <1>8 DEF EnterPlainPortal, MayAct
  <2> QED BY <1>7, <2>1, <2>2, OutsidePromised
<1>9. CASE Revive
  <2>1. PICK w \in {World, Left(World)} :
          \E v \in Moves(Asking(w, Respawn)) : Becomes(Enabled(v))
    BY <1>9 DEF Revive
  <2>2. PICK v \in Moves(Asking(w, Respawn)) : Becomes(Enabled(v))
    BY <2>1
  <2>3. ~run.on /\ UNCHANGED run
    BY <1>9 DEF Revive, MayAct
  <2> QED BY <1>7, <2>1, <2>2, <2>3, OutsidePromised
<1>10. CASE MovedByOthers
  BY <1>10, MovedPromised
<1>11. CASE RefuseEntry \/ EventEnds \/ UNCHANGED vars
  BY <1>2, <1>11, AsidePromised DEF RefuseEntry, EventEnds, vars
<1>12. CASE TransitionDone \/ ReceiveAnswer \/ TalkEnds \/ TalkIsStranded \/ Relog
  <2>1. /\ ~run.on /\ UNCHANGED run /\ entry' = NoEntry /\ client' # "waiting"
    BY <1>12 DEF TransitionDone, ReceiveAnswer, TalkEnds, TalkIsStranded, Relog
  <2> QED BY <2>1, OverPromised
<1>13. CASE TurnAway
  BY <1>13, TurnedPromised
<1> QED BY <1>3, <1>4, <1>5, <1>6, <1>8, <1>9, <1>10, <1>11, <1>12, <1>13 DEF Next

LEMMA AlwaysPromised == Spec => []PInv
BY PromiseStarts, PromiseLasts, PTL DEF Spec

(***************************************************************************)
(* A client that asks to enter a portal is answered when the handler is    *)
(* done: each script that lets the player through, but for those in Mute,  *)
(* moves him, shows a page or enables him on its way, and nothing that     *)
(* happens in between makes an answered client wait.                       *)
(***************************************************************************)
THEOREM ClientIsAnswered == Spec => []Answered
<1>1. PInv => Answered
  BY DEF PInv, WillBeTold, Excused, Answered
<1> QED BY <1>1, AlwaysPromised, PTL

(***************************************************************************)
(* An entry moves the player once at most: of the changes nested in one,   *)
(* the gate lets a single one through, unless the map sends him ahead.     *)
(***************************************************************************)
THEOREM DestinationIsOne == Spec => []OneDestination
<1>1. PInv => OneDestination
  BY DEF PInv, MovedOnce, OneDestination
<1> QED BY <1>1, AlwaysPromised, PTL

(***************************************************************************)
(* Who has paid a portal is let through: between the removal and the       *)
(* change of map its script has nothing that can stop it.                  *)
(***************************************************************************)
THEOREM NobodyPaysInVain == Spec => []GateTakesNothing
<1>1. PInv => GateTakesNothing
  BY DEF PInv, PaidToGo, GateTakesNothing
<1> QED BY <1>1, AlwaysPromised, PTL
=============================================================================
