---------------------------- MODULE QuestScripts1 ---------------------------
(***************************************************************************)
(* Tables of the scripts under scripts/quest: the quests below 3000.       *)
(* q<id>_start and q<id>_end are the two functions of a quest script.      *)
(***************************************************************************)
EXTENDS Dialogue

q1021_end == Talk(BackOrLeave, <<
    If(Fact("getHp() >= 50"), Say("next"), Bye("next")), Say("nextPrev"), Say("nextPrev"),
    If(Completed(1021), Fail,
    If(AllOf({Room(2010000, 1), Room(2010009, 1)}),
      Do(<<Exp(10), Give(2010000, 3), Give(2010009, 3), Complete(Own)>>, Leave),
    Fail))>>)

q1021_start == Talk(BackOrLeave, <<
    Say("next"), Say("nextPrev"), Say("accept"),
    Do(<<Given(Fact("getHp() >= 50"), <<Call("updateHp 25")>>),
         Unless(Has(2010007, 1), <<Give(2010007, 1)>>), Start(Own)>>, Say("next")),
    Say("nextPrev"), Leave>>)

q2001_end == Talk(OnwardUnlessNo, <<
    Say("next"), If(Fact("getInventory(MapleInventoryType.USE).getNu.."), Say("simple"), Leave),
    Do(<<GiveThe("vecItem[selection]"), Take(4000022, 100), Take(4003000, 30), Take(4003001, 30),
         Take(4001004, 1), Exp(20000), Earn(15000), Call("gainFame 2"), Complete(Own)>>, Leave)>>)

q2124_end ==
  Once(If(Has(4031619, 1), Do(<<Take(4031619, 1), Page("ok"), Complete(Own)>>, Leave), Bye("ok")))

q2126_end == q2124_end
q2127_end == Once(Do(<<Page("ok"), Complete(Own)>>, Leave))
q2148_end == Once(Leave)
q2148_start == Once(Do(<<Page("next"), Complete(Own)>>, Leave))
q2149_end == Once(Leave)
q2149_start == Once(Do(<<Page("next"), Complete(Own)>>, Leave))
q2150_end == Once(Leave)
q2150_start == Once(Do(<<Page("next"), Complete(Own)>>, Leave))
q2151_end == Once(Leave)
q2151_start == Once(Do(<<Page("next"), Complete(Own)>>, Leave))
q2152_end == Once(Leave)
q2152_start == Once(Do(<<Page("next"), Complete(Own)>>, Leave))
q2197_end == Once(Do(<<Page("next"), Complete(Own)>>, Leave))
q2197_start == Once(Do(<<Page("next"), Complete(Own)>>, Leave))

q2214_end ==
  Once(If(Fact("getHourOfDay() >= 17"),
         If(Fact("getHourOfDay() >= 20"), Bye("next"),
         If(Room(4031894, 1),
           Do(<<Page("next"), Give(4031894, 1), Exp(20000), Complete(Own)>>, Leave),
         Bye("next"))),
       Bye("next")))

q2215_end ==
  Once(If(Fact("getHourOfDay() >= 17"),
         If(Fact("getHourOfDay() >= 20"), Bye("next"),
         If(AllOf({Mesos(2000), Room(4031894, 1)}),
           Do(<<Page("next"), Give(4031894, 1), Pay(2000), Complete(Own)>>, Leave),
         Bye("next"))),
       Bye("next")))

q2216_start ==
  Once(Do(<<Page("next"), Exp(7000), Complete(Own),
            Under({Completed(2216), Has(4031894, 1)}, {}, <<Take(4031894, 1)>>)>>, Leave))

q2217_start == q2216_start
q2218_start == q2216_start
q2219_start == q2216_start

q2228_start == Talk(BackOrLeave, <<
    Say("next"), Do(<<Call("gainFame 8"), Complete(Own)>>, Leave)>>)

q2230_end == Talk(BackOrLeave, <<
    Say("simple"), On("yes", Say("next")) \cup On("no", Idle), Say("nextPrev"), Say("nextPrev"),
    Say("nextPrev"), Say("yesNo"), Say("next"),
    Do(<<Given(Room(5000054, 1), <<Take(4032086, 1), Complete(Own), Give(5000054, 1)>>)>>, Leave)>>)

q2230_start == Talk(BackUnlessEnd, <<
    Say("next"), Say("yesNo"), Do(<<Page("ok"), Start(Own), Give(4032086, 1)>>, Idle), Leave>>)

q2236_end ==
  Once(If(Fact("getQuestProgress(2236) = 63"),
         Do(<<Page("ok"), Exp(60000), Complete(Own)>>, Leave),
       Do(<<Given(Has(4032263, 1), <<Take(4032263, 6)>>), Give(4032263, 6), Page("ok"),
            Call("updateQuest 2236 0")>>, Leave)))

q2236_start == Talk(Onward, <<
    Say("accept"),
    On("yes",
        Do(<<Given(Has(4032263, 1), <<Take(4032263, 6)>>), Give(4032263, 6), Page("ok"),
             Start(Own)>>, Leave))
    \cup On("decline", Bye("ok"))
    \cup On("end", Bye("ok"))>>)

q2238_start == Once(Do(<<Start(Own)>>, Leave))

q2245_start ==
  Once(If(Fact("getEventManager('BalrogQuest') = null"), Bye("ok"),
       If(Fact("getEventManager('BalrogQuest').startInstan.."),
         Do(<<Call("getEventManager('BalrogQuest').startInstance"), Start(Own)>>, Leave),
       Do(<<Call("getEventManager('BalrogQuest').startInstance")>>, Bye("ok")))))

q2251_end ==
  Once(If(Has(4032399, 20),
         Do(<<Take(4032399, 20), Page("ok"), Exp(8000), Complete(Own)>>, Leave),
       Bye("ok")))

q2257_end == Talk(BackOrLeave, <<Say("next"), Do(<<Complete(Own)>>, Leave)>>)
q2258_end == Talk(BackOrLeave, <<Say("next"), Do(<<Complete(Own)>>, Leave)>>)
q2258_start == Talk(BackOrLeave, <<Say("accept"), Say("next"), Do(<<Start(Own)>>, Leave)>>)

q2259_end == Talk(BackOrLeave, <<
    If(InMap(260020000), Bye("next"), Say("next")), Do(<<Complete(Own)>>, Leave)>>)

q2259_start == Talk(BackOrLeave, <<Say("next"), Do(<<Start(Own)>>, Leave)>>)

q2260_end == Talk(BackOrLeave, <<
    If(Fact("GameConstants.getJobBranch(getJob()) = 1"), Bye("next"), Say("next")),
    Do(<<Complete(Own)>>, Leave)>>)

q2260_start == Talk(BackOrLeave, <<Say("next"), Do(<<Start(Own)>>, Leave)>>)

q2291_end == Talk(BackOrLeave, <<
    If(Has(4032521, 10), Say("next"), Bye("next")),
    If(Fact("getEventManager('RockSpiritVIP').startInst.."),
      Do(<<Call("getEventManager('RockSpiritVIP').startInst.."), Take(4032521, 10),
           Complete(Own)>>, Leave),
    Do(<<Call("getEventManager('RockSpiritVIP').startInst..")>>, Bye("ok")))>>)

q2293_end == But(Talk(BackOrLeave, <<
    Say("simple"), If(AnyOf({Chose(1), Chose(2), Chose(3)}), To(-1, Say("ok")), Say("number")),
    If(AnyOf({Chose(1), Chose(2)}), Bye("ok"),
    If(Chose(3), Do(<<Page("ok"), Exp(32500), Complete(Own)>>, Leave), Idle))>>),
    At(1, "decline", To(0, Say("simple"))))

q2293_start == Once(Do(<<Page("next"), Start(Own)>>, Leave))

q2300_end == Talk(BackOrLeave, <<
    If(Has(4032375, 1), Say("next"), Bye("next")), Say("nextPrev"),
    Do(<<Take(4032375, 1), Exp(6000), Complete(Own), Start(2312)>>, Leave)>>)

q2300_start == Talk(OnwardUnlessEnd, <<
    Say("accept"), On("yes", Say("next")) \cup On("decline", Bye("ok")), Say("next"),
    Say("yesNo"),
    On("yes",
        If(Room(4032375, 1),
          Do(<<Unless(Has(4032375, 1), <<Give(4032375, 1)>>), Warp(106020000),
               Start(Own)>>, Leave),
        Bye("ok")))
    \cup On("decline", If(Room(4032375, 1), Say("next"), Bye("ok"))),
    Do(<<Unless(Has(4032375, 1), <<Give(4032375, 1)>>), Start(Own)>>, Leave)>>)

q2301_end == q2300_end
q2301_start == q2300_start
q2302_end == q2300_end
q2302_start == q2300_start
q2303_end == q2300_end
q2303_start == q2300_start
q2304_end == q2300_end
q2304_start == q2300_start
q2305_end == q2300_end
q2305_start == q2300_start
q2306_end == q2300_end
q2306_start == q2300_start
q2307_end == q2300_end
q2307_start == q2300_start
q2308_end == q2300_end
q2308_start == q2300_start
q2309_end == q2300_end
q2309_start == q2300_start
q2310_end == q2300_end
q2310_start == q2300_start

q2312_end == Talk(BackOrLeave, <<
    Say("ok"), Do(<<Complete(Own), Exp(11500), Take(4000499, 50)>>, Bye("ok"))>>)

q2312_start == Talk(Onward, <<
    Say("accept"),
    On("yes", Do(<<Start(Own)>>, Bye("ok")))
    \cup On("decline", Bye("ok"))
    \cup On("end", Bye("ok"))>>)

q2313_end == Once(Do(<<Complete(Own), Exp(4000)>>, Leave))
q2313_start == q2312_start
q2314_end == Talk(BackOrLeave, <<Say("ok"), Do(<<Exp(8300), Page("ok"), Complete(Own)>>, Leave)>>)

q2314_start == Talk(Onward, <<
    Say("accept"),
    On("yes", Say("next")) \cup On("decline", Bye("next")) \cup On("end", Bye("next")),
    On("yes", Do(<<Exp(8300), Page("ok"), Complete(Own)>>, Leave)) \cup On("end", Bye("next"))>>)

q2315_end == Talk(BackOrLeave, <<Say("ok"), Do(<<Exp(4000), Page("ok"), Complete(Own)>>, Leave)>>)
q2315_start == q2312_start
q2316_end == Talk(BackOrLeave, <<Say("ok"), Do(<<Exp(4200), Page("ok"), Complete(Own)>>, Leave)>>)
q2316_start == q2312_start

q2317_end == Talk(BackOrLeave, <<
    Say("ok"), Do(<<Exp(13500), Take(4000500, 100), Page("ok"), Complete(Own)>>, Leave)>>)

q2317_start == q2312_start

q2318_end == Talk(BackOrLeave, <<
    Say("ok"),
    Do(<<Exp(11500), Take(4000499, 50), Page("next"), Complete(Own), Give(2430014, 1)>>, Idle),
    Bye("prev")>>)

q2318_start == q2312_start

q2319_end == Talk(BackOrLeave, <<
    Say("ok"), Do(<<Exp(4200), Take(4032389, 1), Page("ok"), Complete(Own)>>, Leave)>>)

q2319_start == Talk(Onward, <<
    Say("accept"),
    On("yes", Do(<<Start(Own), Give(4032389, 1)>>, Bye("ok")))
    \cup On("decline", Bye("ok"))
    \cup On("end", Bye("ok"))>>)

q2320_end == Talk(BackOrLeave, <<
    Say("ok"), Do(<<Exp(8800), Take(4032389, 1), Page("ok"), Complete(Own)>>, Leave)>>)

q2320_start == q2319_start
q2321_end == Talk(BackOrLeave, <<Say("ok"), Do(<<Exp(2500), Page("ok"), Complete(Own)>>, Leave)>>)
q2321_start == q2312_start

q2322_end == Talk(BackOrLeave, <<
    Say("ok"), Do(<<Exp(11000), Page("ok"), Complete(Own)>>, Leave)>>)

q2322_start == But(Talk(Rule(1, -1, -1, 1), <<
    Say("yesNo"), On("yes", Say("next")) \cup On("end", Bye("next")),
    On("yes", Do(<<Exp(11000), Page("ok"), Complete(Own)>>, Leave)) \cup On("end", Bye("next"))>>),
    At(0, "decline", Idle))

q2325_end == Talk(BackOrLeave, <<
    Say("next"), Say("nextPrev"), Do(<<Page("ok"), Complete(Own), Exp(6000)>>, Leave)>>)

q2327_start == Talk(BackOrLeave, <<Say("next"), Say("nextPrev"), Do(<<Start(Own)>>, Leave)>>)
q2332_end == Once(Idle)
q2332_start == Once(Do(<<Under({Has(4032388, 1)}, {Started(2332)}, <<Start(Own)>>)>>, Leave))
q2333_end == Talk(BackOrLeave, <<Say("next"), Do(<<Exp(15000), Complete(Own)>>, Leave)>>)
q2333_start == Talk(BackOrLeave, <<Say("accept"), Say("next"), Do(<<Start(Own)>>, Leave)>>)
q2334_end == Once(Idle)

q2334_start == Talk(BackOrLeave, <<
    Do(<<Start(Own)>>, Say("next")), Say("nextPrev"), Say("nextPrev"), Say("nextPrev"),
    Say("nextPrev"), Say("nextPrev"), Do(<<Start(Own), Exp(1000), Complete(Own)>>, Leave)>>)

q2335_end == Once(Idle)

q2335_start == Talk(BackUnlessEnd, <<
    Say("next"), Say("accept"),
    If(Room(4032405, 1), Do(<<Give(4032405, 1)>>, Say("next")), Bye("ok")),
    Do(<<Start(Own)>>, Leave)>>)

q2338_start == Talk(BackOrLeave, <<
    If(Has(2430014, 1), Bye("next"), Say("next")),
    If(Room(2430014, 1), Do(<<Give(2430014, 1), Complete(Own)>>, Leave), Bye("next"))>>)

q2342_end == Once(Idle)

q2342_start ==
  Once(If(Has(4001318, 1), Leave,
       If(Started(2331),
         If(Completed(2331), Leave,
         If(Room(4001318, 1), Do(<<Start(Own), Give(4001318, 1), Complete(Own)>>, Bye("ok")),
         Bye("ok"))),
       Leave)))

q2560_start == Talk(BackElseOnward, <<
    Say("next"), Say("nextPrev"), Say("accept"),
    On("yes", Do(<<Start(Own)>>, Leave)) \cup On("decline", Bye("next"))>>)

q2561_start == Talk(BackElseOnward, <<
    Say("next"), Say("nextPrev"), Say("nextPrev"), Say("nextPrev"), Say("next"), Say("nextPrev"),
    Say("accept"),
    On("yes",
        Do(<<Unless(Started(2561), <<GiveThe("2010000,true"), Start(Own)>>)>>, Say("next")))
    \cup On("decline", Bye("next")), Leave>>)

q2568_end == Talk(BackOrLeave, <<Say("next"), Idle>>)
q2568_start == Talk(BackOrLeave, <<Say("accept"), Do(<<Start(Own), Warp(912060200)>>, Leave)>>)

q2570_end == Talk(BackElseOnward, <<
    Say("next"), Say("nextPrev"), Say("nextPrev"), Say("nextPrev"), Say("nextPrev"),
    Say("accept"),
    On("yes",
        If(Completed(2570), Say("next"),
        Do(<<Give(1532000, 1), Give(1002610, 1), Give(1052095, 1), Call("changeJobById 501"),
             Complete(Own), Complete(29900), Call("teachSkill 109 1 1 -1"),
             Call("teachSkill 110 0 -1 -1"), Call("teachSkill 111 1 1 -1")>>, Fail)))
    \cup On("decline",
        If(Completed(2570), Bye("next"),
        Do(<<Give(1532000, 1), Give(1002610, 1), Give(1052095, 1), Call("changeJobById 501"),
             Complete(Own), Complete(29900), Call("teachSkill 109 1 1 -1"),
             Call("teachSkill 110 0 -1 -1"), Call("teachSkill 111 1 1 -1")>>, Fail)))
    \cup On("no",
        If(Completed(2570), Bye("next"),
        Do(<<Give(1532000, 1), Give(1002610, 1), Give(1052095, 1), Call("changeJobById 501"),
             Complete(Own), Complete(29900), Call("teachSkill 109 1 1 -1"),
             Call("teachSkill 110 0 -1 -1"), Call("teachSkill 111 1 1 -1")>>, Fail))),
    Say("nextPrev"), Say("nextPrev"), Say("nextPrev"),
    Do(<<Page("nextPrev"), Start(2945)>>, Idle), Leave>>)

q2573_start == Talk(OnwardUnlessEnd, <<
    Say("next"), Say("accept"),
    On("yes", Do(<<Page("next"), Warp(3000000), Complete(Own)>>, Leave))
    \cup On("decline", Bye("next"))>>)
=============================================================================
