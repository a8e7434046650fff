----------------------------- MODULE NpcScripts1 ----------------------------
(***************************************************************************)
(* Tables of the scripts under scripts/npc: Amherst to Sleepywood.         *)
(* n<id> is the conversation of a script, its start() and action().        *)
(***************************************************************************)
EXTENDS Dialogue

n2003 == Opens(To(-1, Say("simple")),
    But(Talk(BackOrLeave, <<
    On("yes", Say("next"))
    \cup On("no",
        If(Chose(-1), Idle,
        If(AnyOf({Chose(0), Chose(1), Chose(2), Chose(3), Chose(4), Chose(5), Chose(6), Chose(7),
                  Chose(8), Chose(9), Chose(10), Chose(11), Chose(12), Chose(13), Chose(14),
                  Chose(15), Chose(16)}),
          Say("next"),
        Idle))),
    If(AnyOf({Chose(0), Chose(1), Chose(2), Chose(3), Chose(4), Chose(5), Chose(8), Chose(10),
              Chose(15)}),
      Say("nextPrev"),
    To(-1, Say("simple")))>>),
    At(1, "yes", To(-1, Say("simple")))))

n2100 == Opens(
        If(AnyOf({InMap(0), InMap(3)}), To(-1, Keep("page=yesNo", Say("yesNo"))),
        To(-1, Keep("page=next", Say("next")))),
    But(Talk(BackElseOnward, <<
    On("yes",
        If(AnyOf({InMap(0), InMap(3)}), Keep("page=next", Say("next")),
        Keep("page=prev", Say("prev"))))
    \cup On("decline", Keep("page=yesNo", Say("yesNo"))),
    If(AnyOf({InMap(0), InMap(3)}), Do(<<Warp(1)>>, Leave), Leave),
    If(AnyOf({InMap(0), InMap(3)}), Do(<<Warp(40000)>>, Leave), Leave)>>),
    At(0, "decline", Bye("next"))
    @@ At(0, "no",
         If(AnyOf({InMap(0), InMap(3)}), Keep("page=yesNo", Say("yesNo")),
         Keep("page=next", Say("next"))))
    @@ At(0, "yes",
         When("page=yesNo", If(AnyOf({InMap(0), InMap(3)}), Say("next"), Leave))
         \cup When("page=next", If(AnyOf({InMap(0), InMap(3)}), Do(<<Warp(1)>>, Leave), Leave)))))

n2101 == Opens(To(-1, Say("yesNo")),
    Talk(OnwardUnlessEnd, <<
    On("yes", Say("next")) \cup On("decline", Bye("ok")), Do(<<Warp(40000)>>, Leave)>>))

n10200 == Opens(To(-1, Say("next")),
    Talk(OnwardUnlessEnd, <<
    Say("yesNo"), On("yes", Do(<<Warp(1020300)>>, Leave)) \cup On("decline", Bye("next"))>>))

n10201 == Opens(To(-1, Say("next")),
    Talk(OnwardUnlessEnd, <<
    Say("yesNo"), On("yes", Do(<<Warp(1020200)>>, Leave)) \cup On("decline", Bye("next"))>>))

n10202 == Opens(To(-1, Say("next")),
    Talk(OnwardUnlessEnd, <<
    Say("yesNo"), On("yes", Do(<<Warp(1020100)>>, Leave)) \cup On("decline", Bye("next"))>>))

n10203 == Opens(To(-1, Say("next")),
    Talk(OnwardUnlessEnd, <<
    Say("yesNo"), On("yes", Do(<<Warp(1020400)>>, Leave)) \cup On("decline", Bye("next"))>>))

n10204 == Opens(To(-1, Say("next")),
    Talk(OnwardUnlessEnd, <<
    Say("yesNo"), On("yes", Do(<<Warp(1020500)>>, Leave)) \cup On("decline", Bye("next"))>>))

n11000 == Once(Do(<<Call("MapleShopFactory.getInstance().getShop(110..")>>, Leave))
n12101 == Opens(To(-1, Say("next")), Talk(BackOrLeave, <<Idle>>))

n22000 == Talk(BackElseOnward, <<
    Say("yesNo"), On("yes", Say("next")) \cup On("decline", Bye("ok")) \cup On("no", Say("next")),
    If(Has(4031801, 1), Keep("page=nextPrev", Say("nextPrev")),
    If(AllOf({Level(7), Mesos(150)}), Keep("page=next", Say("next")), Bye("ok"))),
    Do(<<Given(Has(4031801, 1), <<Take(4031801, 1)>>), Unless(Has(4031801, 1), <<Pay(150)>>),
         Warp(104000000)>>, Leave)>>)

n1002002 == But(Talk(BackOrLeave, <<
    Say("simple"),
    If(Chose(0),
      If(Mesos(1500), Do(<<Pay(1500), Call("saveLocation FLORINA"), Warp(110000000)>>, Leave),
      Bye("next")),
    If(Chose(1), Keep("page=yesNo", Say("yesNo")), Keep("page=next", Say("next")))),
    When("page=yesNo",
        If(Has(4031134, 1), Do(<<Call("saveLocation FLORINA"), Warp(110000000)>>, Leave),
        Bye("next")))
    \cup When("page=next", Bye("nextPrev"))>>),
    At(1, "decline", Bye("next"))
    @@ At(1, "end", When("page=yesNo", Bye("next")) \cup When("page=next", Leave)))

n1002003 == Talk(StayUnlessEnd, <<
    On("open", Say("yesNo")) \cup On("decline", Bye("next")),
    On("yes", Say("yesNo")) \cup On("decline", Bye("next")),
    If(Fact("getBuddylist().getCapacity() >= 50"), Bye("next"),
    If(Mesos(240000), Do(<<Pay(240000), Call("setBuddyCapacity")>>, Bye("ok")), Bye("next")))>>)

n1002004 == But(Talk(OnwardUnlessEnd, <<
    Say("next"),
    If(AnyOf({Job(0), Job(1000), Job(2000)}), Keep("beginner=true", Say("yesNo")),
    Keep("beginner=false", Say("yesNo"))), Bye("ok")>>),
    At(1, "yes",
      When("beginner=true",
          If(Mesos(1000), Do(<<Pay(1000), Warp(105070001)>>, Leave), Bye("next")))
      \cup When("beginner=false",
          If(Mesos(10000), Do(<<Pay(10000), Warp(105070001)>>, Leave), Bye("next")))))

n1002005 == Once(Do(<<Call("getStorage().sendStorage 1002005")>>, Leave))
n1002006 == Once(Bye("next"))

n1002007 == But(Talk(BackOrLeave, <<
    Say("next"),
    If(AnyOf({Job(0), Job(1000), Job(2000)}),
      If(Has(4032313, 1), Do(<<Take(4032313, 1), Warp(100000000)>>, Leave),
      Keep("beginner=true", Say("simple"))),
    If(Has(4032313, 1), Do(<<Take(4032313, 1), Warp(100000000)>>, Leave),
    Keep("beginner=false", Say("simple")))),
    When("beginner=true", Keep("beginner=true", Say("yesNo")))
    \cup When("beginner=false",
        If(AnyOf({Job(0), Job(1000), Job(2000)}), Keep("beginner=true", Say("yesNo")),
        Keep("beginner=false", Say("yesNo")))),
    When("beginner=true",
        If(MesosFor("(cost[selection] / 10)"),
          Do(<<PayFor("(cost[selection] / 10)"), WarpTo("maps[selection]")>>, Leave),
        Bye("next")))
    \cup When("beginner=false",
        If(AnyOf({Job(0), Job(1000), Job(2000)}),
          If(MesosFor("(cost[selection] / 10)"),
            Do(<<PayFor("(cost[selection] / 10)"), WarpTo("maps[selection]")>>, Leave),
          Bye("next")),
        If(MesosFor("cost[selection]"),
          Do(<<PayFor("cost[selection]"), WarpTo("maps[selection]")>>, Leave),
        Bye("next"))))>>),
    At(2, "decline", Bye("next")))

n1002100 == Opens(
        If(Completed(2013), To(-1, Say("next")), If(Completed(2010), Bye("next"), Bye("ok"))),
    But(Talk(BackOrLeave, <<
    Say("simple"), Say("number"), Say("yesNo"),
    If(MesosFor("(items[selection][1] * selection)"),
      If(RoomFor("items[selection][0]"),
        Do(<<PayFor("(-items[selection][1] * selection)"),
             GiveThe("items[selection][0],selection")>>, Bye("next")),
      Bye("next")),
    Fail)>>),
    At(2, "decline", Bye("next"))))

n1002104 == But(Talk(BackOrLeave, <<
    If(Started(21733), Say("nextPrev"), Idle), If(Started(21733), Say("nextPrev"), Idle),
    If(Started(21733), Say("nextPrev"), Idle), If(Started(21733), Say("nextPrev"), Idle),
    If(Started(21733), Say("nextPrev"), Idle), If(Started(21733), Say("nextPrev"), Idle),
    If(Started(21733), Say("nextPrev"), Idle),
    If(Started(21733),
      Do(<<Call("teachSkill 21100000 0 20 -1"), Complete(21733)>>, Say("nextPrev")),
    Idle), If(Started(21733), Bye("ok"), Idle)>>),
    At(0, "no", Idle))

n1012000 == But(Talk(BackOrLeave, <<
    Say("next"),
    If(AnyOf({Job(0), Job(1000), Job(2000)}), Keep("beginner=true", Say("simple")),
    Keep("beginner=false", Say("simple"))),
    When("beginner=true", Keep("beginner=true", Say("yesNo")))
    \cup When("beginner=false",
        If(AnyOf({Job(0), Job(1000), Job(2000)}), Keep("beginner=true", Say("yesNo")),
        Keep("beginner=false", Say("yesNo")))),
    When("beginner=true",
        If(MesosFor("(cost[selection] / 10)"),
          Do(<<PayFor("(cost[selection] / 10)"), WarpTo("maps[selection]")>>, Leave),
        Bye("next")))
    \cup When("beginner=false",
        If(AnyOf({Job(0), Job(1000), Job(2000)}),
          If(MesosFor("(cost[selection] / 10)"),
            Do(<<PayFor("(cost[selection] / 10)"), WarpTo("maps[selection]")>>, Leave),
          Bye("next")),
        If(MesosFor("cost[selection]"),
          Do(<<PayFor("cost[selection]"), WarpTo("maps[selection]")>>, Leave),
        Bye("next"))))>>),
    At(2, "decline", Bye("next")))

n1012006 == Talk(StayUnlessEnd, <<
    On("open", Say("simple")) \cup On("decline", Bye("next")),
    On("yes", If(Chose(0), If(Has(4031035, 1), Bye("next"), Say("yesNo")), Bye("ok")))
    \cup On("decline", Bye("next")), Do(<<Give(4031035, 1)>>, Bye("next"))>>)

n1012007 == Talk(BackOrLeave, <<
    If(Has(4031035, 1), Say("next"), Bye("ok")),
    If(Fact("getNoPets() = 0"), Bye("nextPrev"),
    Do(<<Take(4031035, 1), Call("gainCloseness 2")>>, Bye("nextPrev")))>>)

n1012008 == But(Talk(BackUnlessEnd, <<
    Say("simple"), Say("simple"),
    On("yes",
        If(Chose(4), Say("next"),
        If(Has(4030012, 15), Do(<<Take(4030012, 15), Give(4080100, 1)>>, Idle), Bye("next"))))
    \cup On("decline", Idle), Say("simple"),
    If(AllOf({HasThe("omok1piece[selection],99"), HasThe("omok2piece[selection],99"),
              Has(4030009, 1)}),
      Do(<<TakeThe("omok1piece[selection],99"), TakeThe("omok2piece[selection],99"),
           Take(4030009, 1), GiveThe("omok[selection]")>>, Leave),
    Bye("next"))>>),
    At(0, "decline", Idle))

n1012009 == Once(Do(<<Call("getStorage().sendStorage 1012009")>>, Leave))

n1012103 == Talk(BackOrLeave, <<
    Say("simple"), If(Chose(1), Keep("beauty=1", Say("style")), Keep("beauty=2", Say("style"))),
    When("beauty=1",
        If(Has(5150001, 1), Do(<<Close, Take(5150001, 1), Call("setHair")>>, Say("ok")),
        If(Has(5420002, 1), Do(<<Close, Call("setHair")>>, Say("ok")), Bye("ok"))))
    \cup When("beauty=2",
        If(Has(5151001, 1), Do(<<Close, Take(5151001, 1), Call("setHair")>>, Say("ok")),
        Bye("ok")))>>)

n1012104 == Talk(BackOrLeave, <<
    Say("simple"),
    If(Chose(0),
      If(AnyOf({Fact("getGender() = 0"), Fact("getGender() = 1")}),
        Keep("beauty=3; hairnew=[style]", Say("yesNo")),
      Keep("beauty=3; hairnew=[]", Say("yesNo"))),
    If(Chose(1),
      If(AnyOf({Fact("getGender() = 0"), Fact("getGender() = 1")}),
        Keep("beauty=1; hairnew=[style]", Say("yesNo")),
      Keep("beauty=1; hairnew=[]", Say("yesNo"))),
    Keep("beauty=2; hairnew=[]", Say("yesNo")))),
    When("beauty=3; hairnew=[style]",
        If(Has(5150000, 1), Do(<<Close, Take(5150000, 1), Call("setHair")>>, Say("ok")),
        Bye("ok")))
    \cup When("beauty=3; hairnew=[]",
        If(Has(5150000, 1), Do(<<Close, Take(5150000, 1), Call("setHair")>>, Say("ok")),
        Bye("ok")))
    \cup When("beauty=1; hairnew=[style]",
        If(Has(5150010, 1), Do(<<Close, Take(5150010, 1), Call("setHair")>>, Say("ok")),
        Bye("ok")))
    \cup When("beauty=1; hairnew=[]",
        If(Has(5150010, 1), Do(<<Close, Take(5150010, 1), Call("setHair")>>, Say("ok")),
        Bye("ok")))
    \cup When("beauty=2; hairnew=[]",
        If(Has(5151000, 1), Do(<<Close, Take(5151000, 1), Call("setHair")>>, Say("ok")),
        Bye("ok")))>>)

n1012105 == Talk(BackOrLeave, <<
    Say("simple"), If(Has(5153000, 1), Say("style"), Bye("ok")),
    Do(<<Take(5153000, 1), Call("setSkin selection")>>, Bye("ok"))>>)

n1012113 == Talk(BackOrLeave, <<
    If(InMap(910010100), Keep("page=next", Say("next")),
    If(InMap(910010200), Keep("page=yesNo", Say("yesNo")),
    If(InMap(910010300), Keep("page=ok", Say("ok")), Idle))),
    If(InMap(910010100), If(Fact("isEventLeader()"), Say("yesNo"), Bye("ok")),
    If(InMap(910010200),
      Do(<<Warp(910010400), Call("getEventInstance().stopEventTimer")>>, Leave),
    If(InMap(910010300), Do(<<Warp(100000200)>>, Leave), Idle))),
    If(InMap(910010100),
      Do(<<Call("getEventInstance().startEventTimer 300000"),
           Call("getEventInstance().warpEventTeam 910010200")>>, Leave),
    If(InMap(910010200),
      Do(<<Warp(910010400), Call("getEventInstance().stopEventTimer")>>, Leave),
    If(InMap(910010300), Do(<<Warp(100000200)>>, Leave), Idle)))>>)

n1012115 ==
  Once(If(Fact("getQuestStatus(20706) = 0"), Bye("next"),
       If(Started(20706), Do(<<Complete(20706)>>, Bye("next")),
       If(Completed(20706), Bye("next"), Leave))))

n1012116 == Once(Bye("next"))

n1012117 == Talk(BackOrLeave, <<
    Say("simple"), Say("style"),
    If(Has(5150044, 1),
      If(AnyOf({Fact("(selection + 1) = 1"), Fact("(selection + 1) = 2"),
                Fact("(selection + 1) = 3"), Fact("(selection + 1) = 4"),
                Fact("(selection + 1) = 5"), Fact("(selection + 1) = 6"),
                Fact("(selection + 1) = 7"), Fact("(selection + 1) = 8")}),
        If(Has(5150041, 1), Do(<<Call("setHair"), Take(5150044, 1)>>, Bye("ok")),
        Do(<<Call("setHair"), Take(5150044, 1), Page("ok")>>, Bye("ok"))),
      If(Has(5150041, 1),
        If(AnyOf({Fact("(selection + 1) = 9"), Fact("(selection + 1) = 10")}),
          Do(<<Call("setFace"), Take(5150041, 1)>>, Bye("ok")),
        Leave),
      Bye("ok"))),
    If(Has(5150041, 1),
      If(AnyOf({Fact("(selection + 1) = 9"), Fact("(selection + 1) = 10")}),
        Do(<<Call("setFace"), Take(5150041, 1)>>, Bye("ok")),
      Leave),
    Bye("ok")))>>)

n1012118 == Talk(BackOrLeave, <<
    If(Level(20), Bye("ok"),
    If(AnyOf({Started(22515), Started(22516), Started(22517), Started(22518)}),
      To(1, Say("yesNo")),
    Say("simple"))),
    If(Fact("getPlayerCount((910060000 + selection)) >= 5"), To(-1, Say("next")),
    Do(<<WarpTo("(910060000 + selection)")>>, Leave)), Do(<<Warp(910060100)>>, Leave)>>)

n1012119 == n1012118
n1013001 == Talk(BackOrLeave, <<Say("next"), Say("nextPrev"), Do(<<Warp(900090101)>>, Leave)>>)
n1013002 == Once(Do(<<Complete(22011), Warp(900090103)>>, Leave))

n1013104 ==
  Once(If(Started(22007),
         If(Has(4032451, 1), Bye("next"),
         If(Room(4032451, 1), Do(<<GiveThe("4032451,true")>>, Bye("next")), Bye("next"))),
       Bye("next")))

n1013200 ==
  Once(If(Started(22015), Do(<<GiveThe("4032449,true"), Complete(22015)>>, Leave), Bye("ok")))

n1022001 == n1012000

n1022004 == Talk(BackOrLeave, <<
    Say("simple"),
    If(AnyOf({Chose(0), Chose(1)}), To(2, Keep("cost=undefined; equip=true", Say("simple"))),
    Say("simple")),
    If(Chose(2), Keep("cost=0; equip=false", Say("number")),
    Keep("cost=undefined; equip=false", Say("number"))),
    When("cost=undefined; equip=true",
        If(Chose(0), Keep("cost=1000; qty=1", Say("yesNo")),
        If(Chose(1), Keep("cost=25000; qty=1", Say("yesNo")),
        Keep("cost=undefined; qty=1", Say("yesNo")))))
    \cup When("cost=0; equip=false",
        If(Fact("selection >= 1"),
          If(Chose(1), Keep("cost=25000; qty=selection", Say("yesNo")),
          Keep("cost=0; qty=selection", Say("yesNo"))),
        If(Fact("selection >= 0"), Keep("cost=1000; qty=1", Say("yesNo")),
        Keep("cost=0; qty=-selection", Say("yesNo")))))
    \cup When("cost=undefined; equip=false",
        If(Fact("selection >= 1"),
          If(Chose(1), Keep("cost=25000; qty=selection", Say("yesNo")),
          Keep("cost=undefined; qty=selection", Say("yesNo"))),
        If(Fact("selection >= 0"), Keep("cost=1000; qty=1", Say("yesNo")),
        Keep("cost=undefined; qty=-selection", Say("yesNo"))))),
    When("cost=1000; qty=1",
        If(AllOf({Room(1082003, 1), Mesos(1000), Has(4000021, 15), Has(4011001, 1)}),
          Do(<<Take(4000021, 15), Take(4011001, 1), Pay(1000), Give(1082003, 1)>>, Bye("ok")),
        Bye("ok")))
    \cup When("cost=25000; qty=1",
        If(AllOf({Room(1082006, 1), Mesos(25000), Has(1082007, 1), Has(4011005, 2)}),
          Do(<<Take(1082007, 1), Take(4011005, 2), Pay(25000), Give(1082006, 1)>>, Bye("ok")),
        Bye("ok")))
    \cup When("cost=undefined; qty=1",
        If(AllOf({RoomFor("undefined,1"), MesosFor("NaN"), HasThe("undefined,NaN")}),
          Do(<<GiveThe("undefined,NaN"), GiveThe("undefined")>>, Bye("ok")),
        Bye("ok")))
    \cup When("cost=25000; qty=selection",
        If(AllOf({RoomFor("1082006,selection"), MesosFor("(25000 * selection)"),
                  HasThe("1082007,(1 * selection)"), HasThe("4011005,(2 * selection)")}),
          Do(<<TakeThe("1082007,(-1 * selection)"), TakeThe("4011005,(-2 * selection)"),
               PayFor("(-25000 * selection)"), GiveThe("1082006,selection")>>, Bye("ok")),
        Bye("ok")))
    \cup When("cost=0; qty=selection",
        If(AllOf({RoomFor("4003000,(15 * selection)"), MesosFor("(0 * selection)"),
                  HasThe("4011000,(1 * selection)"), HasThe("4011001,(1 * selection)")}),
          Do(<<TakeThe("4011000,(-1 * selection)"), TakeThe("4011001,(-1 * selection)"),
               GiveThe("4003000,(15 * selection)")>>, Bye("ok")),
        Bye("ok")))
    \cup When("cost=0; qty=-selection",
        If(AllOf({RoomFor("4003000,(15 * -selection)"), MesosFor("(0 * -selection)"),
                  HasThe("4011000,(1 * -selection)"), HasThe("4011001,(1 * -selection)")}),
          Do(<<TakeThe("4011000,(-1 * -selection)"), TakeThe("4011001,(-1 * -selection)"),
               GiveThe("4003000,(15 * -selection)")>>, Bye("ok")),
        Bye("ok")))
    \cup When("cost=undefined; qty=selection",
        If(AllOf({RoomFor("undefined,selection"), MesosFor("(undefined * selection)"),
                  HasThe("undefined,(undefined * selection)")}),
          Do(<<GiveThe("undefined,(NaN * selection)"),
               GiveThe("undefined,selection")>>, Bye("ok")),
        Bye("ok")))
    \cup When("cost=undefined; qty=-selection",
        If(AllOf({RoomFor("undefined,-selection"), MesosFor("(undefined * -selection)"),
                  HasThe("undefined,(undefined * -selection)")}),
          Do(<<GiveThe("undefined,(NaN * -selection)"),
               TakeThe("undefined,selection")>>, Bye("ok")),
        Bye("ok")))>>)

n1022005 == Once(Do(<<Call("getStorage().sendStorage 1022005")>>, Leave))

n1022101 == Talk(BackOrLeave, <<
    Say("yesNo"), Do(<<Call("saveLocation HAPPYVILLE"), Warp(209000000)>>, Leave)>>)

n1022104 == Talk(BackOrLeave, <<
    If(Level(20), Bye("ok"), Say("simple")),
    If(Fact("getPlayerCount((910220000 + selection)) >= 5"), To(-1, Say("next")),
    Do(<<WarpTo("(910220000 + selection)")>>, Leave))>>)

n1022105 == n1022104
=============================================================================
