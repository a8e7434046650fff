---------------------------- MODULE QuestScripts2 ---------------------------
(***************************************************************************)
(* Tables of the scripts under scripts/quest: the quests from 3000 to 19999.*)
(* q<id>_start and q<id>_end are the two functions of a quest script.      *)
(***************************************************************************)
EXTENDS Dialogue

q3108_start == Once(Do(<<Page("next"), Complete(Own)>>, Leave))

q3114_end == Talk(BackOrLeave, <<
    If(Fact("getQuestProgress(3114,7777) = -1"), Say("next"),
    If(Has(4161036, 1), Bye("next"),
    If(Room(4161036, 1), Do(<<Give(4161036, 1)>>, Bye("next")), Bye("next")))),
    Do(<<Call("gainFame 20"), Complete(Own)>>, Leave)>>)

q3138_start == Talk(Stay, <<
    Say("next"), Say("next"), Say("next"), Do(<<Warp(211060000), Start(3138)>>, Leave)>>)

q3239_end == Talk(BackOrLeave, <<
    If(AllOf({Has(4031092, 10), Fact("getInventory(MapleInventoryType.USE).getNu..")}), Say("ok"),
    Bye("ok")),
    Do(<<Take(4031092, 10), Given(Fact("floor((random * 4)) = 0"), <<Give(2040704, 1)>>),
         Under({Fact("floor((random * 4)) = 1")}, {Fact("floor((random * 4)) = 0")},
           <<Give(2040705, 1)>>),
         Under({Fact("floor((random * 4)) = 2")}, {Fact("floor((random * 4)) = 0"), Fact("floor((random * 4)) = 1")},
           <<Give(2040707, 1)>>),
         Under({}, {Fact("floor((random * 4)) = 0"), Fact("floor((random * 4)) = 1"), Fact("floor((random * 4)) = 2")},
           <<Give(2040708, 1)>>), Exp(2700), Complete(Own)>>, Leave)>>)

q3250_end ==
  Once(If(AllOf({Completed(3249), Has(4031992, 30)}),
         Do(<<Take(4031992, 30), Page("ok"), Call("gainFame 11"), Complete(Own)>>, Leave),
       Bye("ok")))

q3301_start == Once(Idle)
q3303_start == Once(Idle)

q3311_end ==
  Once(If(AllOf({Fact("getQuestProgress(3311,0) = 1"), Fact("getQuestProgress(3311,1) = 1")}),
         Do(<<Page("next"), Exp(60000), Complete(Own)>>, Leave),
       Bye("next")))

q3314_end == Talk(BackOrLeave, <<
    If(AllOf({Fact("getBuffSource(MapleBuffStat.INC_EFFECT_HP_.."),
              RoomFor("[2050004,2022224],[10,20]")}),
      Do(<<Page("next"), Exp(12500), Give(2050004, 10),
           GiveThe("(2022224 + floor((random * 5))),10"), Complete(Own)>>, Idle),
    Say("next")), Leave>>)

q3320_start == Talk(BackOrLeave, <<Say("accept"), Do(<<Start(Own), Warp(926120200)>>, Leave)>>)

q3321_start == Talk(BackOrLeave, <<
    Say("next"), Say("nextPrev"), Say("accept"), Say("next"), Say("next"),
    Do(<<Page("next"), Start(Own)>>, Leave)>>)

q3345_end ==
  Once(If(Fact("getQuestProgress(3345,0) = 4"),
         Do(<<Page("next"), Complete(Own), Exp(20000)>>, Leave),
       Bye("next")))

q3353_start == Talk(BackOrLeave, <<
    Say("next"), Say("accept"), Do(<<Warp(926120200), Start(Own)>>, Leave)>>)

q3354_start == Talk(BackOrLeave, <<Say("accept"), Do(<<Start(Own)>>, Leave)>>)

q3360_end ==
  Once(If(Fact("getQuestProgress(3360,1) = 0"), Bye("next"), Do(<<Complete(Own)>>, Leave)))

q3382_end ==
  Once(If(AllOf({Has(4001159, 25), Has(4001160, 25)}),
         If(Fact("haveItemWithId(1122010,true)"),
           If(AllOf({Has(4001159, 10), Has(4001160, 10), Room(2041212, 1)}),
             Do(<<Take(4001159, 10), Take(4001160, 10), Give(2041212, 1), Page("ok"),
                  Complete(Own)>>, Leave),
           Bye("next")),
         If(Room(1122010, 1),
           Do(<<Take(4001159, 25), Take(4001160, 25), Give(1122010, 1), Page("ok"),
                Complete(Own)>>, Leave),
         Bye("next"))),
       If(AllOf({Has(4001159, 10), Has(4001160, 10), Room(2041212, 1)}),
         Do(<<Take(4001159, 10), Take(4001160, 10), Give(2041212, 1), Page("ok"),
              Complete(Own)>>, Leave),
       Bye("next"))))

q3414_end == Talk(OnwardUnlessNo, <<
    Say("next"), If(Fact("getInventory(MapleInventoryType.USE).getNu.."), Say("simple"), Leave),
    Do(<<GiveThe("vecItem[selection]"), Take(4031103, 1), Take(4031104, 1), Take(4031105, 1),
         Take(4031106, 1), Exp(12000), Complete(Own)>>, Leave)>>)

q3414_free10rate_end == Talk(OnwardUnlessNo, <<
    Say("next"), Say("simple"),
    Do(<<GiveThe("vecItem[selection]"),
         Given(Fact("gainItem(vecItem[selection],1)#1 = null"), <<Exp(12000), Complete(Own)>>)>>, Leave)>>)

q3452_end == Talk(BackOrLeave, <<
    Say("next"),
    If(Fact("getInventory(MapleInventoryType.USE).getNu.."),
      Do(<<Take(4000099, 1), Give(2000011, 50), Exp(8000), Complete(Own)>>, Leave),
    Bye("next"))>>)

q3454_end ==
  Once(If(Fact("getInventory(MapleInventoryType.ETC).getNu.."),
         Do(<<Take(4000125, 1), Take(4031926, 10), Take(4000119, 30), Take(4000118, 30),
              Given(Fact("random < 1"), <<Give(4031928, 1)>>),
              Unless(Fact("random < 1"), <<Give(4031927, 1)>>), Page("ok"),
              Complete(Own)>>, Leave),
       Bye("ok")))

q3507_end == Talk(BackOrLeave, <<
    If(AnyOf({Completed(3523), Completed(3524), Completed(3525), Completed(3526), Completed(3527),
              Completed(3529), Completed(3539)}),
      Do(<<Complete(Own)>>, Say("ok")),
    Say("ok")), Leave>>)

q3514_end == Talk(BackOrLeave, <<
    If(Fact("getBuffSource(MapleBuffStat.INC_EFFECT_HP_..2"), Say("ok"),
    If(Has(2022337, 1), Bye("ok"),
    If(Room(2022337, 1), Do(<<Give(2022337, 1)>>, Bye("ok")), Bye("ok")))),
    Do(<<Exp(891500), Complete(3514)>>, Leave)>>)

q3514_start ==
  Once(If(AllOf({Mesos(1000000), Room(2022337, 1)}),
         Do(<<Give(2022337, 1), Pay(1000000), Start(3514)>>, Leave),
       Bye("ok")))

q3523_start == Talk(BackOrLeave, <<
    Do(<<Start(Own), Complete(Own), Page("ok"), Complete(3507), Exp(359900)>>, Idle), Leave>>)

q3524_start == q3523_start
q3525_start == q3523_start
q3526_start == q3523_start
q3527_start == q3523_start
q3529_start == q3523_start
q3539_start == q3523_start

q3714_start == Talk(BackOrLeave, <<
    If(Has(4001094, 1), If(Has(2041200, 1), Bye("ok"), Say("next")), Bye("next")),
    If(Room(2041200, 1),
      Do(<<Take(4001094, 1), Give(2041200, 1), Exp(42000), Complete(Own)>>, Leave),
    Bye("ok"))>>)

q3833_end == Talk(BackOrLeave, <<
    Say("ok"),
    If(Fact("getInventory(MapleInventoryType.USE).getNu..2"),
      Do(<<
           Given(Has(4000294, 1000),
             <<Take(4000294, 1000), Give(2040501, 1), Give(2000005, 50), Exp(54000),
               Complete(Own)>>),
           Under({Has(4000294, 600)}, {Has(4000294, 1000)},
             <<Take(4000294, 600), Give(2020013, 50), Exp(54000), Complete(Own)>>),
           Under({Has(4000294, 500)}, {Has(4000294, 1000), Has(4000294, 600)},
             <<Take(4000294, 500), Exp(54000), Complete(Own)>>),
           Under({Has(4000294, 100)}, {Has(4000294, 1000), Has(4000294, 600), Has(4000294, 500)},
             <<Take(4000294, 100), Exp(45000), Complete(Own)>>),
           Under({Has(4000294, 50)}, {Has(4000294, 1000), Has(4000294, 600), Has(4000294, 500), Has(4000294, 100)},
             <<Take(4000294, 50), Give(2020007, 50), Exp(10000), Complete(Own)>>),
           Under({Has(4000294, 1)}, {Has(4000294, 1000), Has(4000294, 600), Has(4000294, 500), Has(4000294, 100), Has(4000294, 50)},
             <<Take(4000294, 1), Give(2000000, 1), Exp(10), Complete(Own)>>)>>, Leave),
    Bye("ok"))>>)

q3926_end ==
  Once(If(AllOf({Fact("getQuestProgress(3926,0) = 1"), Fact("getQuestProgress(3926,1) = 1"),
                 Fact("getQuestProgress(3926,2) = 1"), Fact("getQuestProgress(3926,3) = 1")}),
         Do(<<Page("next"), Exp(6500), Complete(Own)>>, Leave),
       Bye("next")))

q3927_end == But(Talk(BackOrLeave, <<
    If(Fact("getQuestProgress(3927) = 0"), Bye("ok"), Say("simple")),
    If(Fact("getQuestProgress(3927) = 0"), Bye("ok"), Say("simple")),
    If(Fact("getQuestProgress(3927) = 0"), Bye("ok"), If(Chose(0), Say("ok"), Bye("ok"))),
    If(Fact("getQuestProgress(3927) = 0"), Bye("ok"), Do(<<Exp(1000), Complete(Own)>>, Leave))>>),
    At(1, "decline", If(Fact("getQuestProgress(3927) = 0"), Bye("ok"), To(0, Say("simple")))))

q3933_start == Talk(BackOrLeave, <<
    Say("next"), Say("accept"), Say("next"),
    If(Fact("getWarpMap(926000000).getCharacters().size.."), Bye("ok"),
    Do(<<Warp(926000000), Start(Own)>>, Leave))>>)

q3941_end ==
  Once(If(AllOf({Fact("getBuffSource(MapleBuffStat.MORPH) = 2210005"), Room(4031571, 1)}),
         Do(<<Give(4031571, 1), Page("next"), Complete(Own)>>, Leave),
       Bye("next")))

q3941_start == Talk(BackOrLeave, <<
    If(Fact("getBuffSource(MapleBuffStat.MORPH) = 2210005"), Say("next"), Bye("next")),
    If(Fact("getBuffSource(MapleBuffStat.MORPH) = 2210005"),
      Do(<<Page("next"), Start(Own)>>, Leave),
    Bye("next"))>>)

q3953_end == Talk(BackOrLeave, <<
    Say("simple"), Say("simple"), Say("simple"), Say("simple"),
    Do(<<Take(4011008, 1), Page("next"), Exp(20000), Complete(Own)>>, Leave)>>)

q4647_end ==
  Once(If(Has(5460000, 1),
         Do(<<Page("ok"), Call("teachSkill 8 1 1 -1"), Take(5460000, 1), Complete(Own)>>, Leave),
       Bye("ok")))

q4647_start == Once(Leave)
q4659_start == Once(Idle)

q6030_end == Talk(BackOrLeave, <<
    Say("next"), Say("nextPrev"), Say("nextPrev"), Say("nextPrev"), Say("nextPrev"),
    Do(<<Pay(10000), Complete(Own)>>, Leave)>>)

q6031_end == q6030_end

q6032_end == Talk(BackOrLeave, <<
    Say("next"), Say("nextPrev"), Say("nextPrev"), Say("nextPrev"),
    Do(<<Pay(10000), Complete(Own)>>, Leave)>>)

q6033_end == Talk(BackOrLeave, <<
    Say("next"),
    If(AllOf({Fact("getQuestProgress(6033) = 1"), Has(4260003, 1)}), Say("next"), Bye("next")),
    Do(<<Call("teachSkill 2 3 -1"), Exp(230000), Complete(Own)>>, Leave)>>)

q6036_end == Talk(BackOrLeave, <<
    Say("next"), If(Has(4031980, 1), Say("next"), Bye("next")),
    Do(<<Take(4031980, 1), Call("teachSkill 3 3 -1"), Exp(300000), Complete(Own)>>, Leave)>>)

q6410_end == Talk(BackOrLeave, <<
    If(Fact("getQuestProgress(6410,0) = 0"), Bye("ok"), Say("next")), Say("next"),
    Do(<<Exp(1200000), Call("teachSkill 5221009 0 10 -1"), Complete(Own)>>, Leave)>>)

q7103_start == Talk(Rule(1, -1, 0, 0), <<
    On("open", Say("yesNo")) \cup On("decline", Bye("ok")) \cup On("end", Bye("ok")),
    On("yes", Say("next")) \cup On("end", Bye("ok")) \cup On("no", Say("next")),
    On("yes", Say("nextPrev")) \cup On("end", Bye("ok")),
    On("yes",
        If(Has(4031179, 1), Say("accept"),
        If(Room(4031179, 1), Do(<<Give(4031179, 1)>>, Say("accept")), Bye("ok"))))
    \cup On("decline", Bye("ok"))
    \cup On("end", Bye("ok")), Do(<<Start(Own)>>, Leave)>>)

q8219_end == Talk(Onward, <<
    Say("next"), On("yes", Say("ok")) \cup On("end", Bye("ok")),
    On("yes",
        If(Room(3992040, 1), Do(<<Give(3992040, 1), Exp(175000), Complete(Own)>>, Leave),
        Bye("ok")))
    \cup On("end", Bye("ok"))>>)

q8219_start == Talk(Onward, <<
    Say("accept"),
    On("yes", Do(<<Page("ok"), Start(Own)>>, Leave))
    \cup On("decline", Bye("ok"))
    \cup On("end", Bye("ok"))>>)

q8221_start == q8219_start
q8223_start == q8219_start
q8224_start == q8219_start
q8225_start == q8219_start
q8226_start == q8219_start

q8227_end ==
  Once(If(Has(4032032, 1), Do(<<Take(4032032, 1), Page("ok"), Complete(Own)>>, Leave), Bye("ok")))

q8227_start == Talk(Onward, <<
    Say("accept"),
    On("yes",
        If(Room(4032032, 1), Do(<<Give(4032032, 1), Page("ok"), Start(Own)>>, Leave), Bye("ok")))
    \cup On("decline", Bye("ok"))
    \cup On("end", Bye("ok"))>>)

q8228_end ==
  Once(If(Has(4032032, 1), Do(<<Page("ok"), Take(4032032, 1), Complete(Own)>>, Leave), Bye("ok")))

q8228_start == q8227_start

q8229_end == Talk(BackOrLeave, <<
    If(Has(4032018, 1), Say("ok"), Bye("ok")),
    Do(<<Take(4032018, 1), Exp(50000), Complete(Own)>>, Leave)>>)

q8229_start == Talk(Onward, <<
    Say("accept"),
    On("yes",
        If(Has(4032018, 1), Do(<<Start(Own)>>, Leave),
        If(Room(4032018, 1), Do(<<Give(4032018, 1), Start(Own)>>, Leave), Bye("ok"))))
    \cup On("decline", Bye("ok"))
    \cup On("end", Bye("ok"))>>)

q8230_end == Once(If(Has(3992041, 1), Do(<<Page("ok"), Complete(Own)>>, Leave), Bye("ok")))
q8230_start == q8219_start
q8231_start == q8219_start
q8232_start == q8219_start
q8233_start == q8219_start
q8234_start == q8219_start
q8235_start == q8219_start
q8236_start == q8219_start
q8237_start == q8219_start
q8238_start == q8219_start
q8255_end == Once(Do(<<Complete(Own)>>, Idle))
q8255_start == Once(Do(<<Start(Own), Complete(Own)>>, Idle))

q10940_start == Talk(StayUnlessEnd, <<
    On("open", Say("accept")) \cup On("decline", Bye("accept")),
    Do(<<Start(Own), Complete(Own), Give(2430191, 1)>>, Bye("ok"))>>)
=============================================================================
