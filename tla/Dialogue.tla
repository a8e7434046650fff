------------------------------ MODULE Dialogue ------------------------------
(***************************************************************************)
(* The vocabulary in which the scripts under scripts/ are tabulated.       *)
(*                                                                         *)
(* A script keeps its place in a global `status' (or `state'), moves it by *)
(* the answer it is called with, and does what the new place asks for.     *)
(* A table keeps exactly that: the rule by which answers move the status,  *)
(* what is done on reaching each status, and the exceptions.  What a       *)
(* status does is a set of BRANCHES, one for each path through the script: *)
(* the facts about the player the path found true (has) and false (lacks), *)
(* its effects in order (does), the page it leaves with the client, and    *)
(* whether it disposes of the conversation.  The wording of the pages is   *)
(* left out, their kind is kept: the kind decides what can be answered.    *)
(***************************************************************************)
EXTENDS Integers, Sequences, SequencesExt

(***************************************************************************)
(* What the client answers (NPCMoreTalkHandler, mode and type): yes is     *)
(* mode 1; no is mode 0 to a page of type 0, decline is mode 0 to a page   *)
(* of any other type; end is mode -1.  The first call is made by the       *)
(* server, with (1, 0, 0).                                                 *)
(***************************************************************************)
Answers == {"open", "yes", "no", "decline", "end"}

AnswersTo(kind) ==
  CASE kind = "next"                    -> {"yes", "end"}
    [] kind = "ok"                      -> {"yes", "end"}
    [] kind = "prev"                    -> {"no", "end"}
    [] kind = "nextPrev"                -> {"yes", "no", "end"}
    [] kind \in {"yesNo", "accept"}     -> {"yes", "decline", "end"}
    [] kind \in {"simple", "style", "number", "text"} -> {"yes", "decline"}
    [] OTHER                            -> {}

-----------------------------------------------------------------------------
\* Facts: the conditions on the player that the scripts read.
Has(item, n)   == <<"has", item, n>>
HasThe(text)   == <<"has the", text>>
Room(item, n)  == <<"room", item, n>>
RoomFor(text)  == <<"room for", text>>
Mesos(n)       == <<"mesos", n>>
MesosFor(text) == <<"mesos for", text>>
Level(n)       == <<"level", n>>
Completed(q)   == <<"completed", q>>
Started(q)     == <<"started", q>>
Chose(n)       == <<"chose", n>>
InMap(m)       == <<"in map", m>>
Job(j)         == <<"job", j>>
Fact(text)     == <<"fact", text>>
AnyOf(facts)   == <<"any of the", facts>>
AllOf(facts)   == <<"all of them", facts>>

\* What a set of true facts says, an AllOf taken apart.
Known(facts) == facts \cup UNION {f[2] : f \in {g \in facts : g[1] = "all of them"}}

-----------------------------------------------------------------------------
(***************************************************************************)
(* Effects.  A conditional one is done when the facts it is given hold     *)
(* and the others do not.                                                  *)
(***************************************************************************)
Own == -1            \* the quest the script is about
Give(item, n)   == <<"give", item, n>>
GiveThe(text)   == <<"give the", text>>
Take(item, n)   == <<"take", item, n>>
TakeThe(text)   == <<"take the", text>>
TakeAll(item)   == <<"take all", item>>
Earn(n)         == <<"earn", n>>
EarnThe(text)   == <<"earn the", text>>
Pay(n)          == <<"pay", n>>
PayFor(text)    == <<"pay for", text>>
Exp(n)          == <<"exp", n>>
ExpOf(text)     == <<"exp of", text>>
Start(q)        == <<"start", q>>
Complete(q)     == <<"complete", q>>
Warp(m)         == <<"warp", m>>
WarpTo(text)    == <<"warp to", text>>
Call(text)      == <<"call", text>>
Page(kind)      == <<"page", kind>>
Close           == <<"close">>
Under(has, lacks, effects) == <<"under", has, lacks, effects>>
Given(f, effects)          == <<"under", {f}, {}, effects>>
Unless(f, effects)         == <<"under", {}, {f}, effects>>

(***************************************************************************)
(* The runs of a sequence of effects, each with the facts it was under:    *)
(* a conditional effect is done, or one of its conditions fails.           *)
(***************************************************************************)
Run(has, lacks, does) == [has |-> has, lacks |-> lacks, does |-> does]
RunsOf(e) ==
  IF e[1] # "under" THEN {Run({}, {}, <<e>>)}
  ELSE {Run(e[2], e[3], e[4])} \cup {Run({}, {f}, <<>>) : f \in e[2]}
         \cup {Run({f}, {}, <<>>) : f \in e[3]}

\* One run after another, unless they disagree about a fact.
After(r, s) == Run(r.has \cup s.has, r.lacks \cup s.lacks, r.does \o s.does)
Agree(r) == r.has \cap r.lacks = {}
Runs(effects) ==
  FoldLeft(LAMBDA runs, e : {r \in {After(a, b) : a \in runs, b \in RunsOf(e)} : Agree(r)},
           {Run({}, {}, <<>>)}, effects)

Taking == {"take", "take the"}
Gaining == {"give", "give the", "earn", "earn the", "exp", "exp of", "complete"}
Losing == {"take", "take the", "take some", "take all", "pay", "pay for"}
Warping == {"warp", "warp to"}

-----------------------------------------------------------------------------
(***************************************************************************)
(* Branches.  on: the answers it serves; was: the memories it serves, none *)
(* for any; keep and to: the memory and the status it leaves, when these   *)
(* are not the ones the rule leads to; page: the page it leaves, if any;   *)
(* fate: whether the conversation stays open, is disposed of, or the       *)
(* script fails with an exception of its own.                              *)
(***************************************************************************)
Branch(kind, fate) ==
  {[on |-> Answers, was |-> {}, has |-> {}, lacks |-> {}, does |-> <<>>,
    page |-> kind, fate |-> fate, keep |-> "", to |-> {}]}

Say(kind) == Branch(kind, "open")     \* a page, and the conversation stays open
Bye(kind) == Branch(kind, "bye")      \* a page, and dispose
Leave     == Branch("", "bye")        \* dispose
Idle      == Branch("", "open")       \* neither: nobody is left to answer
Fail      == Branch("", "fail")       \* an exception out of the script

If(f, P, Q) ==
  {[b EXCEPT !.has = @ \cup {f}] : b \in P} \cup {[b EXCEPT !.lacks = @ \cup {f}] : b \in Q}
Do(effects, P)  == {[b EXCEPT !.does = effects \o @] : b \in P}
On(answer, P)   == {[b EXCEPT !.on = @ \cap {answer}] : b \in P}
When(memory, P) == {[b EXCEPT !.was = {memory}] : b \in P}
Keep(memory, P) == {[b EXCEPT !.keep = memory] : b \in P}
To(status, P)   == {[b EXCEPT !.to = {status}] : b \in P}

-----------------------------------------------------------------------------
(***************************************************************************)
(* Tables.  says[n + 1] is what reaching status n does, and the rule tells *)
(* which status an answer reaches, Gone standing for a dispose before the  *)
(* status is looked at.  first and but are the exceptions.                 *)
(***************************************************************************)
Gone == 1000
Rule(yes, no, decline, end) ==
  [open |-> IF yes = Gone THEN 1 ELSE yes, yes |-> yes, no |-> no, decline |-> decline,
   end |-> end]

\* The preludes of `action' that most scripts share.
BackOrLeave    == Rule(1, -1, Gone, Gone)
LeaveUnlessYes == Rule(1, Gone, Gone, Gone)
BackUnlessEnd  == Rule(1, -1, -1, Gone)
BackAlways     == Rule(1, -1, -1, -1)
Onward         == Rule(1, 1, 1, 1)
OnwardUnlessEnd == Rule(1, 1, 1, Gone)
OnwardUnlessNo == Rule(1, Gone, Gone, 1)
StayUnlessEnd  == Rule(1, 0, 0, Gone)
BackElseOnward == Rule(1, -1, 1, Gone)
Stay           == Rule(1, 0, 0, 0)
Still          == Rule(0, 0, 0, 0)

NoCase == [k \in {} |-> {}]
Talk(rule, says) == [rule |-> rule, says |-> says, first |-> {}, but |-> NoCase]
Once(P)          == Talk(BackOrLeave, <<P>>)
Opens(P, table)  == [table EXCEPT !.first = P]
At(status, answer, P) == <<status, answer>> :> P
But(table, cases) == [table EXCEPT !.but = cases]

\* What a table does with an answer, and the status the rule leads to.
Reached(table, status, answer) ==
  IF table.rule[answer] = Gone THEN status ELSE status + table.rule[answer]
Says(table, n) == IF n + 1 \in DOMAIN table.says THEN table.says[n + 1] ELSE Idle
Expanded(b) ==
  {[b EXCEPT !.has = @ \cup r.has, !.lacks = @ \cup r.lacks, !.does = r.does] : r \in Runs(b.does)}
Branches(table, status, memory, answer) ==
  LET cases == IF answer = "open" /\ table.first # {} THEN table.first
               ELSE IF <<status, answer>> \in DOMAIN table.but THEN table.but[<<status, answer>>]
               ELSE IF table.rule[answer] = Gone THEN Leave
               ELSE Says(table, Reached(table, status, answer))
  IN  UNION {Expanded(b) :
               b \in {c \in cases : answer \in c.on /\ (c.was = {} \/ memory \in c.was)}}

\* A branch made sure that the player has what it takes.
Secured(b, e) ==
  IF e[1] = "take" THEN \E f \in Known(b.has) : f[1] = "has" /\ f[2] = e[2] /\ f[3] >= e[3]
  ELSE \E f \in Known(b.has) : f[1] \in {"has the", "has"}
=============================================================================
