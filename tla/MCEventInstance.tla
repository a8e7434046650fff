--------------------------- MODULE MCEventInstance --------------------------
(***************************************************************************)
(* EventInstance for TLC: every script with one call at a time, and a few  *)
(* whose calls overlap.                                                    *)
(***************************************************************************)
EXTENDS EventInstance, EventTables

MCPlayers == {"p1", "p2", "p3"}
MCLeader  == "p1"
MCCalls   == 1..2

Tables ==
  {e1stSpellBreaker, e2ndSpellBreaker, e3rdJob_bowman, e3rdJob_magician, e3rdJob_mount,
   e3rdJob_pirate, e3rdJob_thief, e3rdJob_warrior, e3rdSpellBreaker, e4jaerial, e4jship,
   e4jsuper, AmoriaPQ, Aran_2ndmount, Aran_3rdmount, BalrogBattle, BalrogBattle_Easy,
   BalrogQuest, CWKPQ, Cygnus_Magic_Library, DangerousInfo, DelliBattle, DollHouse,
   ElementalBattle, EllinPQ, ElnathPQ, GuardianNex, GuildQuest, HenesysPQ, HolidayPQ_1,
   HolidayPQ_2, HolidayPQ_3, HorntailBattle, HorntailPQ, JennsBrother, KerningPQ,
   KerningTrain, KingPepeAndYetis, LatanicaBattle, LudiMazePQ, LudiPQ, MagatiaPQ_A,
   MagatiaPQ_Z, MahaBattle, MK_PrimeMinister, MK_PrimeMinister2, OrbisPQ, PapulatusBattle,
   PinkBeanBattle, PiratePQ, Puppeteer, RockSpirit, RockSpiritVIP, s4aWorld, ScargaBattle,
   ShowaBattle, TD_Battle1, TD_Battle2, TD_Battle3, TD_Battle4, TD_Battle5, TreasurePQ,
   WeddingCathedral, WeddingChapel, ZakumBattle, ZakumPQ}

\* minPlayers is at most 2 here, so that a team of three may lose one.
AtMost(n, s) == [s EXCEPT !.need = IF @ > n THEN n ELSE @]
Event(s, team, inProgress, happenings) ==
  [script |-> s, team |-> IF s.solo THEN {MCLeader} ELSE team,
   calls |-> inProgress, happenings |-> happenings]

InOrder  == {Event(AtMost(2, s), MCPlayers, 1, 2) : s \in Tables}
AtOnce   == {Event(AtMost(1, s), {"p1", "p2"}, 2, 1) :
               s \in {Expedition, GuildQuest, TreasurePQ, s4aWorld}}
Alone    == {Event(s, {"p1"}, 2, 2) : s \in {t \in Tables : t.solo}}
Rushed   == {Event(PartyQuest, {"p1", "p2"}, 2, 2)}
MCSettings == InOrder \cup AtOnce \cup Alone \cup Rushed
\* The deeds of the scripts, and those their questions lead to.
WithAnswers(deeds) ==
  deeds \cup UNION {ToSet(d.yes) \cup ToSet(d.no) : d \in deeds}
MCDeeds ==
  WithAnswers(WithAnswers(WithAnswers(UNION {ToSet(t[h]) : t \in Tables, h \in Handlers})))
MCUnending == {AtMost(n, s) : n \in 1..2, s \in {MahaBattle, RockSpirit, RockSpiritVIP, s4aWorld}}

\* The theorem on the lobby (EventInstanceProofs) is about the scripts that clear the event in
\* clearPQ alone: all but three, which do so when the player or the time is gone as well.
Elsewhere == {AtMost(n, s) : n \in 1..2, s \in {DangerousInfo, DelliBattle, Puppeteer}}
Plainly(d) == /\ d.do \notin {"set cleared", "free lobby"}
              /\ d.do \in {"call", "invoke", "ask"} => d.to # "clear"
AnsweredIn(D) == {d \in D : ToSet(d.yes) \cup ToSet(d.no) \subseteq D}
MCMild == AnsweredIn(AnsweredIn(AnsweredIn({d \in MCDeeds : Plainly(d)})))

ASSUME MostClearOnce ==
  /\ Mild(MCMild)
  /\ \A s \in MCSettings : ClearsOnce(s.script, MCMild) <=> s.script \notin Elsewhere

\* The theorem on the end of an event is about the scripts that end it by themselves: all but
\* these, where an error may end a handler half-way, playerRevive returns false, the time may
\* only take the team elsewhere, or nothing is left to do it (s4aWorld).
Broken    == {DangerousInfo, MahaBattle, MK_PrimeMinister2, Puppeteer, RockSpirit, RockSpiritVIP}
Revivals  == {e1stSpellBreaker, e2ndSpellBreaker, e3rdSpellBreaker, Cygnus_Magic_Library,
              GuardianNex, GuildQuest, JennsBrother}
Outings   == {AmoriaPQ, HenesysPQ, LudiPQ, OrbisPQ}
Otherwise == {AtMost(n, s) : n \in 1..2, s \in Broken \cup Revivals \cup Outings \cup {s4aWorld}}

\* The deeds of script s.
MCTame(s) == WithAnswers(WithAnswers(WithAnswers(UNION {ToSet(s[h]) : h \in Handlers})))
\* What is left of E when the deeds that do not see to the end by others of E are taken out.
Seeing(E, s) ==
  {d \in E : \/ d.do \in {"dispose", "set cleared"}
             \/ d.do = "start timer" /\ Some(s.timeout, E)
             \/ d.do = "later" /\ Some(s.later, E)
             \/ d.do = "call" /\ Some(s[d.to], E)
             \/ d.do = "first" /\ Some(d.yes, E)
             \/ d.do = "if" /\ Some(d.yes, E) /\ Some(d.no, E)}
MCEnders(s) == FoldSet(LAMBDA i, E : Seeing(E, s), MCTame(s), 1..6)

ASSUME MostEndThemselves ==
  \A s \in {x.script : x \in MCSettings} :
    /\ MCTame(s) \subseteq MCDeeds /\ SeesToEnd(MCEnders(s), s)
    /\ EndsItself(s, MCTame(s), MCEnders(s)) <=> s \notin Otherwise
=============================================================================
