---------------------------- MODULE QuestScripts3 ---------------------------
(***************************************************************************)
(* Tables of the scripts under scripts/quest: the quests from 20000 on and medalQuest.*)
(* q<id>_start and q<id>_end are the two functions of a quest script.      *)
(***************************************************************************)
EXTENDS Dialogue

q20000_start == Talk(BackOrLeave, <<
    Say("next"), Say("next"), Say("ok"),
    Do(<<Give(1142065, 1), Exp(20), Start(Own), Complete(Own)>>, Leave)>>)

q20001_start == Talk(BackUnlessEnd, <<
    Say("next"), Say("nextPrev"), Say("nextPrev"), Say("nextPrev"), Say("nextPrev"),
    Say("nextPrev"), Say("nextPrev"), Say("nextPrev"), Say("accept"),
    Do(<<Given(Completed(20001), <<Exp(40), Give(1052177, 1)>>), Start(Own),
         Complete(Own)>>, Say("next")), Say("nextPrev"), Say("nextPrev"), Say("prev")>>)

q20002_start == Talk(BackUnlessEnd, <<
    Say("next"), Say("next"), Say("accept"),
    Do(<<Exp(60), Give(2000020, 10), Give(2000021, 10), Give(1002869, 1), Page("ok"), Start(Own),
         Complete(Own)>>, Leave)>>)

q20008_start == But(Talk(BackOrLeave, <<
    Say("simple"),
    If(Chose(0), Bye("next"), Do(<<Page("simple"), Start(Own), Complete(Own)>>, Idle)), Idle>>),
    At(0, "decline", Bye("simple")))

q20010_end == Talk(BackOrLeave, <<
    Say("next"),
    If(AllOf({Room(2000022, 1), Room(2000023, 1)}),
      Do(<<Unless(Completed(21010), <<Give(2000020, 5), Give(2000021, 5), Exp(15)>>),
           Complete(Own)>>, Leave),
    Fail)>>)

q20010_start == Talk(Rule(1, -1, -1, 0), <<
    On("open", Say("next")) \cup On("end", Bye("next")) \cup On("no", Say("next")),
    On("yes", Say("nextPrev")) \cup On("end", Bye("next")),
    On("yes", Say("ok")) \cup On("end", Bye("next")) \cup On("decline", Say("ok")),
    On("yes", Say("accept")) \cup On("end", Bye("next")), Do(<<Start(Own)>>, Leave)>>)

\* Seeded defect: the reward is given with a page one can step back from.
q20011_end_Early == Talk(BackOrLeave, <<
    Say("next"), Do(<<Give(1002869, 1), Give(1052177, 1), Complete(Own), Exp(30)>>, Say("nextPrev")),
    Leave>>)

q20011_end == Talk(BackOrLeave, <<
    Say("next"), Say("nextPrev"),
    Do(<<Give(1002869, 1), Give(1052177, 1), Complete(Own), Exp(30)>>, Leave)>>)

q20011_start == Talk(BackOrLeave, <<
    Say("next"), Say("nextPrev"), Say("accept"), Do(<<Start(Own)>>, Leave)>>)

\* Seeded defect: the reward comes before the item is handed over.
q20012_end_Late == Talk(BackOrLeave, <<
    Say("next"), Do(<<Complete(Own), Exp(40), Take(4000483, 1)>>, Leave)>>)

q20012_end == Talk(BackOrLeave, <<
    Say("next"), Do(<<Take(4000483, 1), Complete(Own), Exp(40)>>, Leave)>>)

q20012_start == q20011_start

q20013_end == Talk(BackOrLeave, <<
    Say("next"), Say("nextPrev"),
    Do(<<Take(4032267, 1), Take(4032268, 1), Give(3010060, 1), Complete(Own), Complete(20000),
         Complete(20001), Complete(20002), Complete(20015), Exp(95)>>, Leave)>>)

q20013_start == Talk(BackOrLeave, <<
    Say("next"), On("yes", Say("nextPrev")) \cup On("no", Bye("next")), Say("nextPrev"),
    Say("nextPrev"), Say("accept"), Do(<<Start(Own)>>, Leave)>>)

q20016_end == Once(Idle)

q20016_start == Talk(BackOrLeave, <<
    Say("next"), Say("nextPrev"), Say("nextPrev"), Say("nextPrev"), Say("nextPrev"),
    Say("nextPrev"), Say("nextPrev"), Say("nextPrev"), Say("accept"),
    Do(<<Unless(Started(20016), <<Start(Own), Exp(380)>>)>>, Say("next")), Say("nextPrev"),
    Say("nextPrev"), Do(<<Page("prev"), Complete(Own)>>, Leave)>>)

q20017_end == Once(Idle)

q20017_start == Talk(BackOrLeave, <<
    Say("next"), On("yes", Say("nextPrev")) \cup On("no", Bye("next")), Say("nextPrev"),
    Say("accept"), Do(<<Start(20020), Complete(20100), Start(Own)>>, Leave)>>)

q20100_start == Talk(BackOrLeave, <<
    Say("accept"), Do(<<Page("ok"), Start(Own), Complete(Own)>>, Leave)>>)

q20101_end == Talk(Rule(1, -1, 0, 1), <<
    On("open", Say("yesNo")) \cup On("decline", Bye("next")),
    Do(<<Page("next"),
         Given(Job(1100),
           <<Give(1302077, 1), Give(1142066, 1), Call("changeJob MapleJob.DAWNWARRIOR1"),
             Call("resetStats")>>), Complete(Own)>>, Idle), Say("nextPrev"), Say("nextPrev"),
    Say("nextPrev"), Bye("nextPrev")>>)

q20102_end == Talk(Rule(1, -1, 0, 1), <<
    On("open", Say("yesNo")) \cup On("decline", Bye("next")),
    Do(<<Page("next"),
         Given(Job(1200),
           <<Give(1372043, 1), Give(1142066, 1), Call("changeJob MapleJob.BLAZEWIZARD1"),
             Call("resetStats")>>), Complete(Own)>>, Idle), Say("nextPrev"), Say("nextPrev"),
    Say("nextPrev"), Bye("nextPrev")>>)

q20103_end == Talk(Rule(1, -1, 0, 1), <<
    On("open", Say("yesNo")) \cup On("decline", Bye("next")),
    Do(<<Page("next"),
         Given(Job(1300),
           <<Give(2060000, 2000), Give(1452051, 1), Give(1142066, 1),
             Call("changeJob MapleJob.WINDARCHER1"), Call("resetStats")>>), Complete(Own)>>, Idle),
    Say("nextPrev"), Say("nextPrev"), Say("nextPrev"), Bye("nextPrev")>>)

q20104_end == Talk(Rule(1, -1, 0, 1), <<
    On("open", Say("yesNo")) \cup On("decline", Bye("next")),
    Do(<<Page("next"),
         Given(Job(1400),
           <<Give(1472061, 1), Give(2070000, 800), Give(1142066, 1),
             Call("changeJob MapleJob.NIGHTWALKER1"), Call("resetStats")>>),
         Complete(Own)>>, Idle), Say("nextPrev"), Say("nextPrev"), Say("nextPrev"),
    Bye("nextPrev")>>)

q20105_end == Talk(Rule(1, -1, 0, 1), <<
    On("open", Say("yesNo")) \cup On("decline", Bye("next")),
    Do(<<Page("next"),
         Given(Job(1500),
           <<Give(1482014, 1), Give(1142066, 1), Call("changeJob MapleJob.THUNDERBREAKER1"),
             Call("resetStats")>>), Complete(Own)>>, Idle), Say("nextPrev"), Say("nextPrev"),
    Say("nextPrev"), Bye("nextPrev")>>)

q20200_start == Talk(StayUnlessEnd, <<
    On("open", Say("accept")) \cup On("decline", Bye("next")),
    Do(<<Start(Own), Complete(Own)>>, Bye("ok"))>>)

q20201_end == Talk(Rule(1, -1, 0, Gone), <<
    On("open", Say("yesNo")) \cup On("decline", Bye("next")),
    If(Job(1100),
      If(Fact("getRemainingSp() > ((getLevel() - 30) * 3)"), Bye("next"),
      If(Room(1142067, 1),
        Do(<<Take(4032096, 30), Give(1142067, 1), Call("changeJob MapleJob.DAWNWARRIOR2"),
             Complete(Own)>>, Say("next")),
      Bye("next"))),
    If(Job(1110), Say("next"),
    If(Room(1142067, 1),
      Do(<<Take(4032096, 30), Give(1142067, 1), Call("changeJob MapleJob.DAWNWARRIOR2"),
           Complete(Own)>>, Say("next")),
    Bye("next")))), Say("nextPrev"), Say("prev")>>)

q20202_end == Talk(Rule(1, -1, 0, Gone), <<
    On("open", Say("yesNo")) \cup On("decline", Bye("next")),
    If(Job(1200),
      If(Fact("getRemainingSp() > ((getLevel() - 30) * 3)"), Bye("next"),
      If(Room(1142067, 1),
        Do(<<Take(4032097, 30), Give(1142067, 1), Call("changeJob MapleJob.BLAZEWIZARD2"),
             Complete(Own)>>, Say("next")),
      Bye("next"))),
    If(Job(1210), Say("next"),
    If(Room(1142067, 1),
      Do(<<Take(4032097, 30), Give(1142067, 1), Call("changeJob MapleJob.BLAZEWIZARD2"),
           Complete(Own)>>, Say("next")),
    Bye("next")))), Say("nextPrev"), Say("prev")>>)

q20203_end == Talk(Rule(1, -1, 0, Gone), <<
    On("open", Say("yesNo")) \cup On("decline", Bye("next")),
    If(Job(1300),
      If(Fact("getRemainingSp() > ((getLevel() - 30) * 3)"), Bye("next"),
      If(Room(1142067, 1),
        Do(<<Take(4032098, 30), Give(1142067, 1), Call("changeJob MapleJob.WINDARCHER2"),
             Complete(Own)>>, Say("next")),
      Bye("next"))),
    If(Job(1310), Say("next"),
    If(Room(1142067, 1),
      Do(<<Take(4032098, 30), Give(1142067, 1), Call("changeJob MapleJob.WINDARCHER2"),
           Complete(Own)>>, Say("next")),
    Bye("next")))), Say("nextPrev"), Say("prev")>>)

q20204_end == Talk(Rule(1, -1, 0, Gone), <<
    On("open", Say("yesNo")) \cup On("decline", Bye("next")),
    If(Job(1400),
      If(Fact("getRemainingSp() > ((getLevel() - 30) * 3)"), Bye("next"),
      If(Room(1142067, 1),
        Do(<<Take(4032099, 30), Give(1142067, 1), Call("changeJob MapleJob.NIGHTWALKER2"),
             Complete(Own)>>, Say("next")),
      Bye("next"))),
    If(Job(1410), Say("next"),
    If(Room(1142067, 1),
      Do(<<Take(4032099, 30), Give(1142067, 1), Call("changeJob MapleJob.NIGHTWALKER2"),
           Complete(Own)>>, Say("next")),
    Bye("next")))), Say("nextPrev"), Say("prev")>>)

q20205_end == Talk(Rule(1, -1, 0, Gone), <<
    On("open", Say("yesNo")) \cup On("decline", Bye("next")),
    If(Job(1500),
      If(Fact("getRemainingSp() > ((getLevel() - 30) * 3)"), Bye("next"),
      If(Room(1142067, 1),
        Do(<<Take(4032100, 30), Give(1142067, 1), Call("changeJob MapleJob.THUNDERBREAKER2"),
             Complete(Own)>>, Say("next")),
      Bye("next"))),
    If(Job(1510), Say("next"),
    If(Room(1142067, 1),
      Do(<<Take(4032100, 30), Give(1142067, 1), Call("changeJob MapleJob.THUNDERBREAKER2"),
           Complete(Own)>>, Say("next")),
    Bye("next")))), Say("nextPrev"), Say("prev")>>)

q20311_start == Talk(StayUnlessEnd, <<
    Say("next"), On("yes", Say("yesNo")) \cup On("decline", Bye("next")),
    If(Fact("getRemainingSp() > ((getLevel() - 70) * 3)"), Bye("next"),
    If(Room(1142068, 1),
      Do(<<Give(1142068, 1), Call("changeJob MapleJob.DAWNWARRIOR3"), Page("ok"),
           Complete(Own)>>, Leave),
    Bye("next")))>>)

q20312_start == Talk(StayUnlessEnd, <<
    Say("next"), On("yes", Say("yesNo")) \cup On("decline", Bye("next")),
    If(Fact("getRemainingSp() > ((getLevel() - 70) * 3)"), Bye("next"),
    If(Room(1142068, 1),
      Do(<<Give(1142068, 1), Call("changeJob MapleJob.BLAZEWIZARD3"), Page("ok"),
           Complete(Own)>>, Leave),
    Bye("next")))>>)

q20313_start == Talk(StayUnlessEnd, <<
    Say("next"), On("yes", Say("yesNo")) \cup On("decline", Bye("next")),
    If(Fact("getRemainingSp() > ((getLevel() - 70) * 3)"), Bye("next"),
    If(Room(1142068, 1),
      Do(<<Give(1142068, 1), Call("changeJob MapleJob.WINDARCHER3"), Page("ok"),
           Complete(Own)>>, Leave),
    Bye("next")))>>)

q20314_start == Talk(StayUnlessEnd, <<
    Say("next"), On("yes", Say("yesNo")) \cup On("decline", Bye("next")),
    If(Fact("getRemainingSp() > ((getLevel() - 70) * 3)"), Bye("next"),
    If(Room(1142068, 1),
      Do(<<Give(1142068, 1), Call("changeJob MapleJob.NIGHTWALKER3"), Page("ok"),
           Complete(Own)>>, Leave),
    Bye("next")))>>)

q20315_start == Talk(StayUnlessEnd, <<
    Say("next"), On("yes", Say("yesNo")) \cup On("decline", Bye("next")),
    If(Fact("getRemainingSp() > ((getLevel() - 70) * 3)"), Bye("next"),
    If(Room(1142068, 1),
      Do(<<Give(1142068, 1), Call("changeJob MapleJob.THUNDERBREAKER3"), Page("ok"),
           Complete(Own)>>, Leave),
    Bye("next")))>>)

q20400_start == Talk(BackOrLeave, <<Say("next"), Do(<<Complete(Own)>>, Leave)>>)
q20401_start == Talk(BackOrLeave, <<Say("next"), Do(<<Complete(Own)>>, Leave)>>)
q20405_start == Talk(BackOrLeave, <<Say("next"), Say("nextPrev"), Do(<<Complete(Own)>>, Leave)>>)
q20406_start == Talk(BackOrLeave, <<Say("next"), Do(<<Complete(Own)>>, Leave)>>)

q20408_start == Talk(BackOrLeave, <<
    Say("next"), Say("nextPrev"), Say("accept"),
    If(Room(1142069, 1),
      Do(<<Give(1142069, 1), Given(Fact("(getJobId() % 10) = 1"), <<Call("changeJobById")>>),
           Start(Own), Complete(Own)>>, Say("ok")),
    Bye("ok")), Leave>>)

q20520_start == Talk(BackOrLeave, <<
    Say("next"), Say("accept"), Do(<<Start(Own), Complete(Own)>>, Bye("ok"))>>)

q20522_end == Talk(BackOrLeave, <<
    Say("next"),
    If(Has(4220137, 1), Do(<<Page("ok"), Complete(Own), Take(4220137, 1), Exp(37600)>>, Leave),
    Bye("ok"))>>)

q20522_start == Talk(BackOrLeave, <<
    Say("next"), Say("nextPrev"), Say("accept"),
    If(Has(4220137, 1), Do(<<Start(Own)>>, Bye("ok")),
    If(Room(4220137, 1), Do(<<Start(Own), Give(4220137, 1)>>, Bye("ok")), Bye("ok")))>>)

q20526_end == Talk(BackOrLeave, <<
    Say("next"),
    If(AllOf({Has(4220137, 1), Room(1902005, 1)}),
      Do(<<Page("ok"), Give(1902005, 1), Take(4220137, 1), Pay(10000000), Complete(Own)>>, Leave),
    Bye("ok"))>>)

q20526_start == q20522_start

q20527_start ==
  Once(If(Fact("getMount() = null"), Bye("next"),
       If(Fact("getMount().getLevel() >= 3"), Do(<<Page("next"), Complete(Own)>>, Leave),
       Bye("next"))))

q20600_end == Once(Leave)
q20600_start == Talk(BackOrLeave, <<Say("accept"), Do(<<Start(Own)>>, Leave)>>)
q20610_end == Once(Leave)

q20610_start == Talk(Onward, <<
    Say("accept"),
    On("yes", Do(<<Start(Own)>>, Leave))
    \cup On("decline", Bye("ok"))
    \cup On("end", Do(<<Start(Own)>>, Leave))>>)

q20700_end == Once(Leave)

q20700_start == Talk(BackOrLeave, <<
    Say("next"), Say("accept"), Do(<<Complete(Own)>>, Say("next")), Say("prev")>>)

q20710_start == Talk(StayUnlessEnd, <<
    On("open", Say("accept")) \cup On("decline", Bye("ok")), Do(<<Start(Own)>>, Leave)>>)

q20720_end == Once(Idle)
q20720_start == Talk(BackOrLeave, <<Say("accept"), Do(<<Start(Own)>>, Leave)>>)
q21000_end == Once(Do(<<Complete(Own)>>, Leave))

q21000_start == Talk(Onward, <<
    Say("accept"),
    On("yes", Do(<<Start(Own)>>, Say("next")))
    \cup On("decline", Bye("next"))
    \cup On("end", Bye("next")), On("yes", Say("nextPrev")) \cup On("end", Bye("next")),
    On("yes", Say("nextPrev")) \cup On("no", Bye("next")) \cup On("end", Bye("next")),
    On("yes", Leave) \cup On("no", Bye("next")) \cup On("end", Bye("next"))>>)

q21001_end == Talk(Rule(1, Gone, 1, Gone), <<
    Say("yesNo"), On("yes", Say("next")) \cup On("decline", Bye("next")), Say("nextPrev"),
    Say("nextPrev"), Say("nextPrev"), Say("nextPrev"), Say("nextPrev"), Say("nextPrev"),
    Do(<<Take(4001271, 1), Call("removeEquipFromSlot -11"), Complete(Own),
         Warp(914090010)>>, Leave)>>)

q21001_start == Talk(BackOrLeave, <<
    Say("accept"), Do(<<Give(4001271, 1), Start(Own), Warp(914000300)>>, Leave)>>)

q21010_end == Talk(LeaveUnlessYes, <<
    If(Fact("getHp() >= 50"), Say("next"), Bye("next")), Say("ok"),
    Do(<<
         Under({Started(21010)}, {Completed(21010)},
           <<Exp(16), Give(2000022, 3), Give(2000023, 3), Complete(Own)>>)>>, Say("next")),
    Say("nextPrev"), Leave>>)

q21010_start == Talk(Onward, <<
    Say("next"), Say("nextPrev"), Say("nextPrev"), Say("accept"),
    Do(<<Given(Fact("getHp() >= 50"), <<Call("updateHp 25")>>),
         Under({}, {Started(21010), Completed(21010)}, <<Give(2000022, 1), Start(Own)>>)>>, Say("next")),
    Say("nextPrev"), Leave>>)

q21011_end == Talk(Rule(1, Gone, 1, Gone), <<
    Say("next"), Say("nextPrev"), Say("nextPrev"), Say("nextPrev"), Say("yesNo"),
    On("yes",
        If(Completed(21011), Fail,
        If(Room(1302000, 1), Do(<<Give(1302000, 1), Exp(35), Complete(Own)>>, Say("next")), Fail)))
    \cup On("decline",
        If(Completed(21011), Do(<<Page("next"), Close>>, Fail),
        If(Room(1302000, 1),
          Do(<<Page("next"), Close, Give(1302000, 1), Exp(35), Complete(Own)>>, Say("next")),
        Do(<<Page("next"), Close>>, Fail)))), Leave>>)

q21011_start == Talk(LeaveUnlessYes, <<
    Say("next"), Say("nextPrev"), Say("nextPrev"), Say("accept"), Do(<<Start(Own)>>, Bye("ok"))>>)

q21012_end == Talk(BackOrLeave, <<
    Say("ok"),
    If(Completed(21012), Fail,
    If(AllOf({Room(2000022, 1), Room(2000023, 1)}),
      Do(<<Exp(57), Give(2000022, 10), Give(2000023, 10), Complete(Own)>>, Bye("ok")),
    Fail))>>)

q21012_start == Talk(LeaveUnlessYes, <<
    Say("next"), Say("nextPrev"), Say("accept"), Do(<<Start(Own)>>, Say("next")), Say("nextPrev"),
    Leave>>)

q21013_end == Talk(Rule(1, Gone, 1, Gone), <<
    Say("yesNo"),
    On("yes",
        If(Completed(21013), Fail,
        Do(<<Complete(Own), Exp(95), Take(4032309, 1), Take(4032310, 1),
             Give(3010062, 1)>>, Say("nextPrev"))))
    \cup On("decline", Bye("next")), Say("next"), Leave>>)

q21013_start == Talk(BackOrLeave, <<
    Say("simple"), Say("accept"), Do(<<Start(Own)>>, Say("next")), Leave>>)

q21015_start == Talk(BackElseOnward, <<
    Say("next"), Say("nextPrev"), Say("accept"),
    On("yes", Do(<<Start(Own)>>, Say("next"))) \cup On("decline", Bye("next")), Leave>>)

q21016_start == Talk(OnwardUnlessEnd, <<
    Say("accept"), On("yes", Do(<<Start(Own)>>, Say("next"))) \cup On("decline", Bye("next")),
    Leave>>)

q21017_start == Talk(BackElseOnward, <<
    Say("next"), Say("nextPrev"), Say("nextPrev"), Say("nextPrev"), Say("nextPrev"),
    Say("accept"), Do(<<Unless(Started(21017), <<Start(Own)>>)>>, Say("next")), Say("nextPrev"),
    Leave>>)

q21018_start == Talk(OnwardUnlessEnd, <<
    Say("next"), Say("accept"), Do(<<Start(Own)>>, Say("next")), Leave>>)

q21100_start == Talk(BackElseOnward, <<
    Say("next"), Say("nextPrev"), Say("nextPrev"), Say("nextPrev"), Say("nextPrev"),
    Say("nextPrev"), Say("accept"), Do(<<Complete(Own)>>, Bye("ok"))>>)

q21101_end == Once(Idle)

q21101_start == Talk(BackElseOnward, <<
    Say("yesNo"),
    On("yes",
        If(Job(2000),
          If(Room(1142129, 1),
            Do(<<GiveThe("1142129,true"), Call("changeJobById 2100"), Call("resetStats"),
                 Given(Fact("ServerConstants.USE_FULL_ARAN_SKILLSET"),
                   <<Call("teachSkill 21000000 0 10 -1"), Call("teachSkill 21001003 0 20 -1")>>),
                 Complete(Own)>>, Say("nextPrev")),
          Bye("ok")),
        Idle))
    \cup On("decline", Bye("next")), Leave>>)

q21200_end == Talk(Rule(1, Gone, 1, Gone), <<
    Say("next"), Say("nextPrev"), Say("nextPrev"), Say("nextPrev"), Say("nextPrev"),
    Say("nextPrev"), Say("nextPrev"), Say("nextPrev"), Say("nextPrev"), Say("nextPrev"),
    Say("nextPrev"), Say("yesNo"),
    On("yes", Do(<<Complete(Own)>>, Say("next"))) \cup On("decline", Bye("next")), Leave>>)

q21200_start == Talk(OnwardUnlessEnd, <<
    Say("accept"),
    On("yes", Do(<<Page("ok"), Start(Own)>>, Leave)) \cup On("decline", Bye("next"))>>)

q21201_end == Talk(Rule(1, -1, 0, 0), <<
    On("open", Say("next")) \cup On("end", Bye("next")) \cup On("no", Say("next")),
    On("yes", Say("nextPrev")) \cup On("end", Bye("next")) \cup On("no", Say("nextPrev")),
    On("yes", Say("nextPrev")) \cup On("end", Bye("next")) \cup On("no", Say("nextPrev")),
    On("yes", Say("nextPrev")) \cup On("end", Bye("next")) \cup On("no", Say("nextPrev")),
    On("yes", Say("nextPrev")) \cup On("end", Bye("next")) \cup On("no", Say("nextPrev")),
    On("yes", Say("nextPrev")) \cup On("end", Bye("next")) \cup On("no", Say("nextPrev")),
    On("yes", Say("nextPrev")) \cup On("end", Bye("next")),
    On("yes", Say("accept")) \cup On("decline", Bye("next")) \cup On("end", Bye("next")),
    If(Completed(21201), Bye("next"),
    If(Room(1142130, 1),
      Do(<<GiveThe("1142130,true"), Call("changeJobById 2110"),
           Given(Fact("ServerConstants.USE_FULL_ARAN_SKILLSET"),
             <<Call("teachSkill 21100000 0 20 -1"), Call("teachSkill 21100002 0 30 -1"),
               Call("teachSkill 21100004 0 20 -1"), Call("teachSkill 21100005 0 20 -1")>>),
           Complete(Own)>>, Bye("next")),
    Bye("ok")))>>)

q21202_end == Talk(Rule(1, Gone, 1, Gone), <<
    If(Has(4032311, 30), Say("next"), Bye("next")), Say("nextPrev"), Say("yesNo"),
    On("yes", Do(<<Complete(Own), TakeAll(4032311)>>, Leave)) \cup On("decline", Bye("next"))>>)

q21202_start == Talk(LeaveUnlessYes, <<
    Say("next"), Say("nextPrev"), Say("nextPrev"), Say("nextPrev"), Say("accept"), Say("ok"),
    Do(<<Start(Own)>>, Leave)>>)

q21300_start == Talk(Onward, <<
    Say("next"), On("yes", Say("accept")) \cup On("end", Bye("next")),
    On("yes", Do(<<Page("ok"), Start(Own)>>, Leave))
    \cup On("decline", Bye("next"))
    \cup On("end", Bye("next"))>>)

q21301_end == Talk(Rule(1, -1, Gone, 1), <<
    Say("next"),
    On("yes", Say("nextPrev")) \cup On("end", Bye("next")) \cup On("no", Say("nextPrev")),
    On("yes", Say("nextPrev")) \cup On("end", Bye("next")) \cup On("no", Say("nextPrev")),
    On("yes", Say("nextPrev")) \cup On("end", Bye("next")) \cup On("no", Say("nextPrev")),
    On("yes", Say("nextPrev")) \cup On("end", Bye("next")) \cup On("no", Say("nextPrev")),
    On("yes", Say("nextPrev")) \cup On("end", Bye("next")),
    On("yes", Do(<<Page("nextPrev"), Complete(Own)>>, Leave)) \cup On("end", Bye("next"))>>)

q21302_end == Talk(LeaveUnlessYes, <<
    Say("next"), Say("nextPrev"),
    If(Completed(21302), Bye("next"),
    If(Room(1142131, 1),
      Do(<<Given(Has(4032312, 1), <<Take(4032312, 1)>>), GiveThe("1142131,true"),
           Call("changeJobById 2111"),
           Given(Fact("ServerConstants.USE_FULL_ARAN_SKILLSET"),
             <<Call("teachSkill 21110002 0 20 -1")>>), Complete(Own)>>, Bye("next")),
    Bye("ok")))>>)

q21303_start == Talk(BackOrLeave, <<
    Say("next"), Say("nextPrev"), Say("nextPrev"), Say("nextPrev"), Do(<<Start(Own)>>, Leave)>>)

q21400_start == Talk(Onward, <<
    Say("accept"),
    On("yes", Do(<<Page("ok"), Start(Own)>>, Leave))
    \cup On("decline", Bye("next"))
    \cup On("end", Bye("next"))>>)

q21401_end == Talk(Onward, <<
    Say("next"), On("yes", Say("yesNo")) \cup On("end", Bye("next")),
    On("yes",
        If(Completed(21401), Say("next"),
        If(AllOf({Room(1142132, 1), Room(2280003, 1)}),
          Do(<<GiveThe("1142132,true"), Give(2280003, 1), Call("changeJobById 2112"),
               Complete(Own)>>, Say("next")),
        Bye("ok"))))
    \cup On("decline", Bye("next"))
    \cup On("end", Bye("next")), On("yes", Idle) \cup On("end", Bye("next"))>>)

q21401_start == Talk(Rule(1, -1, 1, 1), <<
    Say("next"),
    On("yes", Say("nextPrev")) \cup On("end", Bye("next")) \cup On("no", Say("nextPrev")),
    On("yes", Say("nextPrev")) \cup On("end", Bye("next")),
    On("yes", Say("accept")) \cup On("end", Bye("next")),
    On("yes",
        If(Fact("getEventManager('MahaBattle').startInstanc.."),
          Do(<<Call("getEventManager('MahaBattle').startInstance"), Start(Own)>>, Leave),
        Do(<<Call("getEventManager('MahaBattle').startInstance")>>, Bye("ok"))))
    \cup On("decline", Bye("next"))
    \cup On("end", Bye("next"))>>)

q21600_start == Talk(BackOrLeave, <<
    Say("next"), Say("accept"), Do(<<Page("next"), Start(Own)>>, Leave)>>)

q21604_start == Talk(BackOrLeave, <<Say("next"), Say("next"), Do(<<Start(Own)>>, Leave)>>)

q21613_start == Talk(BackOrLeave, <<
    Say("next"), Say("nextPrev"), Say("accept"),
    If(Fact("getEventManager('Aran_3rdmount') = null"), Bye("ok"),
    If(Fact("getEventManager('Aran_3rdmount').startInst.."),
      Do(<<Call("getEventManager('Aran_3rdmount').startInst.."), Start(Own)>>, Leave),
    Do(<<Call("getEventManager('Aran_3rdmount').startInst..")>>, Bye("ok"))))>>)

q21618_end == Talk(BackOrLeave, <<
    If(Fact("haveItemWithId(1902017,false)"), Say("next"), Bye("next")),
    Do(<<Take(1902017, 1), Give(1902018, 1), Complete(Own)>>, Leave)>>)

q21618_start == q20011_start
q21700_end == Once(Leave)

q21700_start == Talk(BackOrLeave, <<
    Say("next"), Say("nextPrev"), Say("nextPrev"), Say("nextPrev"), Say("accept"),
    Do(<<Page("next"),
         Under({}, {Started(21700), Completed(21700)}, <<Give(1442000, 1), Start(Own)>>)>>, Idle),
    Bye("prev")>>)

q21703_end == Talk(BackOrLeave, <<
    Say("next"), Say("nextPrev"), Say("yesNo"),
    Do(<<
         Given(Started(21703), <<Complete(Own), Call("teachSkill 21000000 10 -1"), Exp(2800)>>)>>, Say("next")),
    Bye("prev")>>)

q21703_start == Talk(BackOrLeave, <<
    Say("next"), Say("nextPrev"), Say("nextPrev"), Say("nextPrev"), Say("nextPrev"),
    Say("nextPrev"), Say("accept"), Do(<<Start(Own)>>, Bye("ok"))>>)

q21704_end == Once(Leave)

q21704_start == Talk(BackOrLeave, <<
    Say("next"), On("yes", Say("nextPrev")) \cup On("no", Leave), Say("nextPrev"),
    Do(<<Complete(Own), Exp(500)>>, Leave)>>)

q21712_end == Once(Leave)

q21712_start == Talk(BackOrLeave, <<
    Say("next"), Say("accept"), Do(<<Start(Own)>>, Say("next")), Bye("prev")>>)

q21716_end == Once(Leave)

q21716_start == Talk(BackOrLeave, <<
    Say("next"), Say("nextPrev"), Say("accept"), Do(<<Start(Own)>>, Say("next")), Say("prev")>>)

q21719_end == Once(Leave)

q21719_start == Talk(BackOrLeave, <<
    Say("next"), Say("nextPrev"), Say("accept"), Do(<<Complete(Own), Warp(910510200)>>, Leave)>>)

q21720_end == Talk(BackOrLeave, <<
    Say("next"), Say("nextPrev"), Say("nextPrev"), Say("nextPrev"), Say("nextPrev"),
    Say("nextPrev"), Say("yesNo"),
    Do(<<
         Given(Started(21720), <<Complete(Own), Call("teachSkill 21001003 20 -1"), Exp(3900)>>)>>, Say("next")),
    Say("nextPrev"), Say("nextPrev"), Say("prev")>>)

q21720_start == Once(Leave)

q21728_end ==
  Once(If(Fact("getQuestProgress(21728,0) = 0"), Bye("next"),
       Do(<<Page("next"), Exp(200), Complete(Own)>>, Leave)))

q21729_start == Talk(BackOrLeave, <<Say("next"), Do(<<Start(Own)>>, Leave)>>)

q21733_end == Talk(BackOrLeave, <<
    Say("next"), Say("next"),
    Do(<<Exp(8000), Call("teachSkill 21100000 0 20 -1"), Complete(Own)>>, Leave)>>)

q21733_start == Talk(BackOrLeave, <<Say("next"), Do(<<Start(Own)>>, Leave)>>)

q21734_end == Talk(BackOrLeave, <<
    Say("next"), Say("next"), Say("next"),
    Do(<<Exp(12500), Call("teachSkill 21100005 0 20 -1"), Complete(Own)>>, Leave)>>)

q21734_start == Talk(BackOrLeave, <<Say("next"), Do(<<Start(Own)>>, Leave)>>)

q21735_end == Talk(BackOrLeave, <<
    If(Has(4032323, 1), Say("next"), Leave),
    Do(<<Take(4032323, 1), Exp(6037), Complete(Own)>>, Leave)>>)

q21735_start == Talk(BackOrLeave, <<
    Say("next"),
    If(Room(4032323, 1), Do(<<Unless(Has(4032323, 1), <<Give(4032323, 1)>>), Start(Own)>>, Leave),
    Bye("next"))>>)

q21736_start == Talk(BackOrLeave, <<
    Say("next"), Say("nextPrev"), Say("nextPrev"), Say("accept"), Do(<<Start(Own)>>, Leave)>>)

q21738_start == Talk(BackOrLeave, <<
    Say("next"), Say("next"), Say("next"), Say("next"), Say("next"), Say("next"), Say("accept"),
    Say("ok"), Do(<<Start(Own)>>, Leave)>>)

q21739_end == Talk(BackOrLeave, <<Say("next"), Do(<<Exp(29500), Complete(Own)>>, Leave)>>)

q21740_end == Talk(BackOrLeave, <<
    Say("next"), Say("next"), Do(<<Call("teachSkill 21100004 0 20 -1"), Complete(Own)>>, Leave)>>)

q21740_start == Talk(BackOrLeave, <<Say("next"), Do(<<Start(Own)>>, Leave)>>)
q21741_start == q21600_start

q21742_end == Talk(BackOrLeave, <<
    Say("next"), Do(<<Take(4032342, 8), Take(4220151, 1), Exp(10000), Complete(Own)>>, Leave)>>)

q21742_start == Talk(BackOrLeave, <<
    Say("next"), Say("nextPrev"), Say("nextPrev"), Say("nextPrev"), Say("nextPrev"),
    Say("nextPrev"), Say("accept"), Say("next"), Say("nextPrev"),
    If(Has(4220151, 1), Do(<<Start(Own)>>, Leave),
    If(Room(4220151, 1), Do(<<Give(4220151, 1), Start(Own)>>, Leave), Bye("ok")))>>)

q21746_end == q21742_end

q21746_start == Talk(BackOrLeave, <<
    Say("next"),
    If(Fact("getWarpMap(925040001).countPlayers() = 0"),
      Do(<<Call("getWarpMap(925040001).resetPQ 1"), Warp(925040001), Start(Own)>>, Leave),
    Bye("ok"))>>)

q21747_end == Talk(BackOrLeave, <<
    Say("next"), Say("next"), Do(<<Exp(16000), Complete(Own)>>, Leave)>>)

q21747_start == Talk(BackOrLeave, <<Say("accept"), Say("next"), Do(<<Start(Own)>>, Leave)>>)

q21748_end == Talk(BackOrLeave, <<
    Say("next"), Say("next"),
    Do(<<Exp(20000), Call("teachSkill 21100002 0 30 -1"), Complete(Own)>>, Leave)>>)

q21749_start == Talk(BackOrLeave, <<
    Say("next"), Say("next"), Do(<<Exp(500), Complete(Own)>>, Leave)>>)

q21750_end == Talk(BackOrLeave, <<Say("next"), Do(<<Complete(Own)>>, Leave)>>)
q21753_start == Talk(BackOrLeave, <<Say("next"), Do(<<Page("next"), Start(Own)>>, Leave)>>)

q21754_start == Talk(BackOrLeave, <<
    If(Room(4032328, 1), Say("next"), Bye("next")), Do(<<Start(Own), Give(4032328, 1)>>, Leave)>>)

q21757_end == Talk(BackOrLeave, <<
    Say("next"), Do(<<Exp(1000), Take(4032330, 1), Complete(Own)>>, Leave)>>)

q21766_end == Once(Do(<<Exp(200), Complete(Own)>>, Leave))

q21766_start == Talk(Onward, <<
    Say("next"), Say("next"), Say("next"), Say("next"), Do(<<Start(Own)>>, Leave)>>)

q21767_start == Talk(Onward, <<
    If(Has(4032423, 1), Do(<<Start(Own)>>, Leave), Say("next")),
    Do(<<Give(4032423, 1), Start(Own)>>, Leave)>>)

q22000_end == Talk(BackOrLeave, <<
    Say("next"), Say("nextPrev"), Do(<<Complete(Own), Exp(20)>>, Fail)>>)

q22000_start == Talk(BackElseOnward, <<
    Say("next"), Say("nextPrev"), Say("nextPrev"), Say("nextPrev"), Say("nextPrev"),
    Say("nextPrev"), Say("nextPrev"), Say("accept"),
    On("yes", Do(<<Start(Own)>>, Say("next"))) \cup On("decline", Bye("next")), Fail>>)

q22001_start == Talk(BackElseOnward, <<
    Say("next"), Say("nextPrev"), Say("accept"),
    On("yes", Do(<<GiveThe("4032447,true"), Start(Own)>>, Say("next")))
    \cup On("decline", Bye("next")), Bye("prev")>>)

q22002_end == Talk(BackOrLeave, <<
    Say("next"),
    Do(<<Give(1003028, 1), Give(2022621, 5), Give(2022622, 5), Complete(Own), Exp(60)>>, Fail)>>)

q22002_start == Talk(OnwardUnlessEnd, <<
    Say("next"), Say("accept"),
    On("yes", Do(<<GiveThe("2022620,true"), Start(Own)>>, Say("next")))
    \cup On("decline", Bye("next")), Fail>>)

q22003_start == Talk(BackElseOnward, <<
    Say("accept"),
    Do(<<Under({}, {Started(22003), Has(4032448, 1)}, <<GiveThe("4032448,true")>>),
         Unless(Started(22003), <<Start(Own)>>)>>, Say("next")), Say("nextPrev"), Fail>>)

q22004_end == Talk(BackOrLeave, <<
    Say("next"),
    Do(<<
         Unless(Completed(22004), <<GiveThe("3010097,true"), Complete(Own), Exp(210)>>)>>, Say("nextPrev")),
    Fail>>)

q22004_start == Talk(OnwardUnlessEnd, <<
    Say("next"), Say("accept"),
    On("yes", Do(<<Start(Own)>>, Say("next"))) \cup On("decline", Bye("next")), Fail>>)

q22007_end == Talk(OnwardUnlessEnd, <<
    Say("next"), Say("yesNo"),
    On("yes", Do(<<Take(4032451, 1), Complete(Own), Exp(360)>>, Fail))
    \cup On("decline", Bye("next"))>>)

q22008_end == Talk(BackOrLeave, <<
    Say("next"), Say("nextPrev"), Say("nextPrev"), Say("nextPrev"), Say("nextPrev"),
    Say("nextPrev"), Say("nextPrev"), Say("nextPrev"), Say("nextPrev"), Say("nextPrev"),
    Say("nextPrev"), Say("nextPrev"),
    Do(<<
         Unless(Completed(22008),
           <<GiveThe("1372043,true"), Give(2022621, 25), Give(2022622, 25), Complete(Own),
             Exp(910)>>)>>, Say("nextPrev")), Bye("prev")>>)

q22008_start == Talk(OnwardUnlessEnd, <<
    Say("accept"), On("yes", Do(<<Start(Own)>>, Say("next"))) \cup On("decline", Bye("next")),
    Fail>>)

q22500_start == Talk(BackElseOnward, <<
    Say("next"), Say("nextPrev"), Say("nextPrev"), Say("nextPrev"), Say("nextPrev"),
    Say("nextPrev"), Say("nextPrev"), Say("nextPrev"), Say("nextPrev"), Say("nextPrev"),
    Say("nextPrev"), Say("nextPrev"), Say("accept"),
    Do(<<Unless(Started(22500), <<Start(Own)>>)>>, Say("next")), Say("nextPrev"), Fail>>)

q22501_start == Talk(BackElseOnward, <<
    Say("next"), Say("nextPrev"), Say("nextPrev"), Say("accept"),
    On("yes", Do(<<Start(Own)>>, Bye("ok"))) \cup On("decline", Bye("next"))>>)

q22502_start == Talk(OnwardUnlessEnd, <<
    Say("accept"), On("yes", Do(<<Start(Own)>>, Fail)) \cup On("decline", Bye("next"))>>)

q22503_start == Talk(BackElseOnward, <<
    Say("next"), Say("nextPrev"), Say("accept"),
    On("yes", Do(<<Start(Own)>>, Bye("next"))) \cup On("decline", Bye("next"))>>)

q22504_start == Talk(BackElseOnward, <<
    Say("next"), Say("nextPrev"), Say("accept"),
    On("yes", Do(<<Start(Own)>>, Say("next"))) \cup On("decline", Say("next")), Idle>>)

q22507_start == Talk(BackElseOnward, <<
    Say("next"), Say("nextPrev"), Say("nextPrev"), Say("nextPrev"), Say("nextPrev"),
    Say("nextPrev"), Say("nextPrev"), Say("nextPrev"), Say("nextPrev"), Say("nextPrev"),
    Say("nextPrev"), Say("nextPrev"), Say("nextPrev"), Say("nextPrev"), Say("accept"),
    On("yes", Do(<<Unless(Completed(22507), <<Complete(Own), Exp(810)>>)>>, Say("next")))
    \cup On("decline", Say("next"))
    \cup On("no", Say("next")), Say("nextPrev"), Bye("prev")>>)

q23011_end == Talk(BackElseOnward, <<
    Say("yesNo"),
    On("yes",
        If(Completed(23011), Say("next"),
        Do(<<Give(1382100, 1), Give(1142242, 1), Complete(Own),
             Call("changeJobById 3200")>>, Fail)))
    \cup On("decline", Say("next"))
    \cup On("no", Say("next")), Say("nextPrev"), Leave>>)

q28004_start == Talk(BackOrLeave, <<
    If(Level(51), Do(<<Complete(Own)>>, Leave), Say("next")), Say("accept"),
    If(Level(31), If(Level(41), Do(<<Warp(889100020)>>, Leave), Do(<<Warp(889100010)>>, Leave)),
    Do(<<Warp(889100000)>>, Leave))>>)

q29900_end == Talk(BackOrLeave, <<
    Say("next"),
    If(Room(1142107, 1), Do(<<Give(1142107, 1), Complete(Own)>>, Leave), Bye("next"))>>)

q29900_start == Once(Do(<<Start(Own)>>, Leave))

q29901_end == Talk(BackOrLeave, <<
    Say("next"),
    If(Room(1142108, 1), Do(<<Give(1142108, 1), Complete(Own)>>, Leave), Bye("next"))>>)

q29901_start == Once(Do(<<Start(Own)>>, Leave))

q29902_end == Talk(BackOrLeave, <<
    Say("next"),
    If(Room(1142109, 1), Do(<<Give(1142109, 1), Complete(Own)>>, Leave), Bye("next"))>>)

q29902_start == Once(Do(<<Start(Own)>>, Leave))

q29903_end == Talk(BackOrLeave, <<
    Say("next"),
    If(Room(1142110, 1), Do(<<Give(1142110, 1), Complete(Own)>>, Leave), Bye("next"))>>)

q29903_start == Once(Do(<<Start(Own)>>, Leave))

q29924_end ==
  Once(If(AllOf({Level(10), Fact("((getJob().getId() / 100) | 0) = 21")}),
         If(Has(1142129, 1), Do(<<Start(Own), Complete(Own)>>, Leave),
         If(Room(1142129, 1), Do(<<Give(1142129, 1), Start(Own), Complete(Own)>>, Leave), Leave)),
       Leave))

q29924_start == q29924_end
qmedalQuest_end == Once(Do(<<Complete(Own)>>, Leave))
qmedalQuest_start == Once(Do(<<Start(Own), Complete(Own)>>, Leave))
qunidentifiedQuest_start == Once(Leave)
=============================================================================
