----------------------------- MODULE NpcScripts2 ----------------------------
(***************************************************************************)
(* Tables of the scripts under scripts/npc: the rest of Victoria Island.   *)
(* n<id> is the conversation of a script, its start() and action().        *)
(***************************************************************************)
EXTENDS Dialogue

n1032002 == Talk(BackOrLeave, <<
    Say("simple"), Say("simple"),
    If(Chose(0), Keep("matQty=15", Say("yesNo")),
    If(Chose(1), Keep("matQty=[1,2]", Say("yesNo")),
    If(Chose(2), Keep("matQty=undefined", Say("yesNo")),
    If(Chose(3), Keep("matQty=[2,1,10]", Say("yesNo")),
    If(Chose(4), Keep("matQty=[2,1,1,15]", Say("yesNo")), Keep("matQty=undefined", Say("yesNo"))))))),
    When("matQty=15",
        If(AllOf({Room(1082019, 1), Mesos(7000), Has(4000021, 15)}),
          Do(<<Take(4000021, 15), Pay(7000), Give(1082019, 1)>>, Bye("ok")),
        Bye("ok")))
    \cup When("matQty=[1,2]",
        If(AllOf({Room(1082022, 1), Mesos(25000), Has(1082020, 1), Has(4021001, 2)}),
          Do(<<Take(1082020, 1), Take(4021001, 2), Pay(25000), Give(1082022, 1)>>, Bye("ok")),
        Bye("ok")))
    \cup When("matQty=undefined",
        If(AllOf({RoomFor("undefined,1"), MesosFor("undefined"), HasThe("undefined,undefined")}),
          Do(<<GiveThe("undefined,NaN"), GiveThe("undefined")>>, Bye("ok")),
        Bye("ok")))
    \cup When("matQty=[2,1,10]",
        If(AllOf({Room(1372004, 1), Mesos(12000), Has(4011002, 2), Has(4003002, 1),
                  Has(4003000, 10)}),
          Do(<<Take(4011002, 2), Take(4003002, 1), Take(4003000, 10), Pay(12000),
               Give(1372004, 1)>>, Bye("ok")),
        Bye("ok")))
    \cup When("matQty=[2,1,1,15]",
        If(AllOf({Room(1382002, 1), Mesos(12000), Has(4021006, 2), Has(4021001, 1),
                  Has(4011001, 1), Has(4003000, 15)}),
          Do(<<Take(4021006, 2), Take(4021001, 1), Take(4011001, 1), Take(4003000, 15),
               Pay(12000), Give(1382002, 1)>>, Bye("ok")),
        Bye("ok")))>>)

n1032003 == Talk(StayUnlessEnd, <<
    On("open", If(Level(25), Say("yesNo"), Bye("ok"))) \cup On("decline", Bye("ok")),
    If(Mesos(5000),
      If(Started(2050), Do(<<Warp(101000100), Pay(5000)>>, Leave),
      If(Started(2051), Do(<<Warp(101000102), Pay(5000)>>, Leave),
      If(Level(25),
        If(Level(50), Do(<<Warp(101000102), Pay(5000)>>, Leave),
        Do(<<Warp(101000100), Pay(5000)>>, Leave)),
      Do(<<Pay(5000)>>, Leave)))),
    Bye("ok"))>>)

n1032004 == Talk(BackOrLeave, <<Say("yesNo"), Do(<<Warp(101000000)>>, Leave)>>)

n1032005 == But(Talk(OnwardUnlessEnd, <<
    Say("next"),
    If(AnyOf({Job(0), Job(1000), Job(2000)}), Keep("beginner=true", Say("yesNo")),
    Keep("beginner=false", Say("yesNo"))), Bye("ok")>>),
    At(1, "yes",
      When("beginner=true",
          If(Mesos(1000), Do(<<Pay(1000), Warp(105070001)>>, Leave), Bye("next")))
      \cup When("beginner=false",
          If(Mesos(10000), Do(<<Pay(10000), Warp(105070001)>>, Leave), Bye("next")))))

n1032006 == Once(Do(<<Call("getStorage().sendStorage 1032006")>>, Leave))
n1032007 == Once(Bye("ok"))

n1032008 == But(Talk(BackUnlessEnd, <<
    Say("simple"),
    If(Chose(0), If(Mesos(10000), Do(<<Pay(10000), Warp(200000100)>>, Leave), Bye("ok")),
    If(Fact("getEventManager('Boat').getProperty('entry.."), Do(<<Warp(101000301)>>, Leave),
    Bye("ok")))>>),
    At(0, "decline", Idle))

n1032009 == Opens(To(1, Say("yesNo")),
    Talk(BackOrLeave, <<Idle, Idle, Say("next"), Do(<<Warp(101000300)>>, Leave)>>))

n1032100 == But(Talk(BackOrLeave, <<
    If(Level(40), Say("next"), Bye("ok")), Say("simple"),
    If(Chose(0), Keep("selected=0", Say("yesNo")),
    If(Chose(1), Keep("selected=1", Say("yesNo")), Keep("selected=2", Say("yesNo")))),
    When("selected=0",
        If(AllOf({Has(4011000, 1), Has(4011001, 1), Has(4011002, 1), Has(4011003, 1),
                  Has(4011004, 1), Has(4011005, 1), Has(4011006, 1), Mesos(10000)}),
          Do(<<Pay(10000), Take(4011000, 1), Take(4011001, 1), Take(4011002, 1), Take(4011003, 1),
               Take(4011004, 1), Take(4011005, 1), Take(4011006, 1),
               Give(4011007, 1)>>, Bye("next")),
        Bye("next")))
    \cup When("selected=1",
        If(AllOf({Has(4021000, 1), Has(4021001, 1), Has(4021002, 1), Has(4021003, 1),
                  Has(4021004, 1), Has(4021005, 1), Has(4021006, 1), Has(4021007, 1),
                  Has(4021008, 1), Mesos(15000)}),
          Do(<<Pay(15000), Take(4021000, 1), Take(4021001, 1), Take(4021002, 1), Take(4021003, 1),
               Take(4021004, 1), Take(4021005, 1), Take(4021006, 1), Take(4021007, 1),
               Take(4021008, 1), Give(4021009, 1)>>, Bye("next")),
        Bye("next")))
    \cup When("selected=2",
        If(AllOf({Has(4001006, 1), Has(4011007, 1), Has(4021008, 1), Mesos(30000)}),
          Do(<<Pay(30000), Take(4001006, 1), Take(4011007, 1), Take(4021008, 1),
               Give(4031042, 1)>>, Bye("next")),
        Bye("next")))>>),
    At(2, "decline", Bye("next")))

n1032110 == Talk(BackOrLeave, <<Say("ok"), Leave>>)

n1032111 == Talk(BackOrLeave, <<
    If(Started(20716),
      If(Has(4032142, 1), Say("ok"),
      If(Room(4032142, 1), Do(<<Give(4032142, 1)>>, Say("ok")), Say("ok"))),
    Say("ok")), Leave>>)

n1032113 == Talk(BackOrLeave, <<
    If(Level(20), Bye("ok"), Say("simple")),
    If(Fact("getPlayerCount((910120000 + selection)) >= 5"), To(-1, Say("next")),
    Do(<<WarpTo("(910120000 + selection)")>>, Leave))>>)

n1032114 == n1032113

n1040000 ==
  Once(If(Started(28177),
         If(Has(4032479, 1), Bye("ok"),
         If(Room(4032479, 1), Do(<<Give(4032479, 1)>>, Bye("ok")), Bye("ok"))),
       Bye("ok")))

n1043000 ==
  Once(If(Started(2050),
         If(Room(4031020, 1), Do(<<Give(4031020, 1), Warp(101000000)>>, Leave),
         Do(<<Page("next"), Close, Warp(101000000)>>, Idle)),
       Do(<<Warp(101000000)>>, Leave)))

n1043001 == Once(Do(<<Given(Started(2051), <<Give(4031032, 1)>>), Warp(101000000)>>, Leave))

n1052002 == Talk(BackOrLeave, <<
    Say("simple"),
    If(AnyOf({Chose(0), Chose(1), Chose(2), Chose(3)}), To(2, Keep("equip=true", Say("simple"))),
    Say("simple")), Keep("equip=false", Say("number")),
    When("equip=true",
        If(Chose(0), Keep("matQty=15; qty=1", Say("yesNo")),
        If(Chose(1), Keep("matQty=[1,1]; qty=1", Say("yesNo")),
        If(Chose(2), Keep("matQty=[1,3,20,30]; qty=1", Say("yesNo")),
        If(Chose(3), Keep("matQty=[1,2]; qty=1", Say("yesNo")),
        Keep("matQty=undefined; qty=1", Say("yesNo")))))))
    \cup When("equip=false",
        If(Fact("selection >= 1"),
          If(Chose(1), Keep("matQty=[1,1]; qty=selection", Say("yesNo")),
          If(Chose(2), Keep("matQty=[1,3,20,30]; qty=selection", Say("yesNo")),
          If(Chose(3), Keep("matQty=[1,2]; qty=selection", Say("yesNo")),
          Keep("matQty=undefined; qty=selection", Say("yesNo"))))),
        If(Fact("selection >= 0"), Keep("matQty=15; qty=1", Say("yesNo")),
        Keep("matQty=undefined; qty=-selection", Say("yesNo"))))),
    When("matQty=15; qty=1",
        If(AllOf({Room(1082002, 1), Mesos(1000), Has(4000021, 15)}),
          Do(<<Take(4000021, 15), Pay(1000), Give(1082002, 1)>>, Bye("ok")),
        Bye("ok")))
    \cup When("matQty=[1,1]; qty=1",
        If(AllOf({Room(1082034, 1), Mesos(7000), Has(1082032, 1), Has(4021004, 1)}),
          Do(<<Take(1082032, 1), Take(4021004, 1), Pay(7000), Give(1082034, 1)>>, Bye("ok")),
        Bye("ok")))
    \cup When("matQty=[1,3,20,30]; qty=1",
        If(AllOf({Room(1472007, 1), Mesos(5000), Has(1472000, 1), Has(4011001, 3),
                  Has(4000021, 20), Has(4003001, 30)}),
          Do(<<Take(1472000, 1), Take(4011001, 3), Take(4000021, 20), Take(4003001, 30),
               Pay(5000), Give(1472007, 1)>>, Bye("ok")),
        Bye("ok")))
    \cup When("matQty=[1,2]; qty=1",
        If(AllOf({Room(1472006, 1), Mesos(5000), Has(1472004, 1), Has(4011003, 2)}),
          Do(<<Take(1472004, 1), Take(4011003, 2), Pay(5000), Give(1472006, 1)>>, Bye("ok")),
        Bye("ok")))
    \cup When("matQty=undefined; qty=1",
        If(AllOf({RoomFor("undefined,1"), MesosFor("NaN"), HasThe("undefined,NaN")}),
          Do(<<GiveThe("undefined,NaN"), GiveThe("undefined")>>, Bye("ok")),
        Bye("ok")))
    \cup When("matQty=[1,1]; qty=selection",
        If(AllOf({RoomFor("1082034,selection"), MesosFor("(7000 * selection)"),
                  HasThe("1082032,(1 * selection)"), HasThe("4021004,(1 * selection)")}),
          Do(<<TakeThe("1082032,(-1 * selection)"), TakeThe("4021004,(-1 * selection)"),
               PayFor("(-7000 * selection)"), GiveThe("1082034,selection")>>, Bye("ok")),
        Bye("ok")))
    \cup When("matQty=[1,3,20,30]; qty=selection",
        If(AllOf({RoomFor("1472007,selection"), MesosFor("(5000 * selection)"),
                  HasThe("1472000,(1 * selection)"), HasThe("4011001,(3 * selection)"),
                  HasThe("4000021,(20 * selection)"), HasThe("4003001,(30 * selection)")}),
          Do(<<TakeThe("1472000,(-1 * selection)"), TakeThe("4011001,(-3 * selection)"),
               TakeThe("4000021,(-20 * selection)"), TakeThe("4003001,(-30 * selection)"),
               PayFor("(-5000 * selection)"), GiveThe("1472007,selection")>>, Bye("ok")),
        Bye("ok")))
    \cup When("matQty=[1,2]; qty=selection",
        If(AllOf({RoomFor("1472006,selection"), MesosFor("(5000 * selection)"),
                  HasThe("1472004,(1 * selection)"), HasThe("4011003,(2 * selection)")}),
          Do(<<TakeThe("1472004,(-1 * selection)"), TakeThe("4011003,(-2 * selection)"),
               PayFor("(-5000 * selection)"), GiveThe("1472006,selection")>>, Bye("ok")),
        Bye("ok")))
    \cup When("matQty=undefined; qty=selection",
        If(AllOf({RoomFor("undefined,selection"), MesosFor("(undefined * selection)"),
                  HasThe("undefined,(undefined * selection)")}),
          Do(<<GiveThe("undefined,(NaN * selection)"),
               GiveThe("undefined,selection")>>, Bye("ok")),
        Bye("ok")))
    \cup When("matQty=undefined; qty=-selection",
        If(AllOf({RoomFor("undefined,-selection"), MesosFor("(undefined * -selection)"),
                  HasThe("undefined,(undefined * -selection)")}),
          Do(<<GiveThe("undefined,(NaN * -selection)"),
               TakeThe("undefined,selection")>>, Bye("ok")),
        Bye("ok")))>>)

n1052004 == Talk(BackOrLeave, <<
    Say("simple"), Say("style"),
    If(Has(5152001, 1), Do(<<Close, Take(5152001, 1), Call("setFace")>>, Say("ok")), Bye("ok"))>>)

n1052005 == Talk(BackOrLeave, <<
    Say("simple"),
    If(AnyOf({Fact("getGender() = 0"), Fact("getGender() = 1")}),
      Keep("facenew=[style]", Say("yesNo")),
    Keep("facenew=[]", Say("yesNo"))),
    If(Has(5152000, 1), Do(<<Close, Take(5152000, 1), Call("setFace")>>, Say("ok")), Bye("ok"))>>)

n1052006 == Opens(
        If(AnyOf({Started(2055), Completed(2055), Started(2056), Completed(2056), Started(2057),
                  Completed(2057)}),
          To(-1, Keep("zones=3", Say("next"))),
        To(-1, Keep("zones=0", Say("next")))),
    Talk(BackOrLeave, <<
    When("zones=3", Say("simple")) \cup When("zones=0", Leave),
    If(Mesos(1000), Do(<<Pay(1000), GiveThe("(4031036 + selection)")>>, Leave), Bye("ok"))>>))

n1052007 == Talk(BackOrLeave, <<
    Say("simple"),
    If(Chose(0),
      If(Fact("getEventManager('KerningTrain').startInsta.."),
        Do(<<Call("getEventManager('KerningTrain').startInsta..")>>, Leave),
      Do(<<Call("getEventManager('KerningTrain').startInsta..")>>, Bye("ok"))),
    If(AnyOf({Has(4031036, 1), Has(4031037, 1), Has(4031038, 1)}), Say("simple"), Bye("ok"))),
    Do(<<TakeThe("(4031035 + selection)"), WarpTo("(103000897 + (selection * 3))")>>, Leave)>>)

n1052008 ==
  Once(Do(<<Given(Started(2055), <<Give(4031039, 1)>>),
            Unless(Started(2055), <<GiveThe("(4020000 + ((random * 5) | 0))")>>),
            Warp(103000100)>>, Leave))

n1052009 == Talk(OnwardUnlessEnd, <<
    If(InMap(230010300), If(Fact("hasDailyEntry('TREASURE')"), Bye("ok"), Say("yesNo")),
    Do(<<Given(Started(2056), <<Give(4031040, 1)>>),
         Unless(Started(2056), <<GiveThe("prizes[(random * 5)]")>>), Warp(103000100)>>, Leave)),
    On("yes",
        If(Fact("~~(random * 4) = 3"),
          Do(<<Page("next"), Give(4008002, 25), Call("completeDaily TREASURE false")>>, Leave),
        If(Fact("~~(random * 4) = 1"),
          Do(<<Page("next"), Earn(50000), Call("completeDaily TREASURE false")>>, Leave),
        If(Fact("~~(random * 4) = 2"),
          Do(<<Page("next"), Give(4008002, 10), Call("completeDaily TREASURE false")>>, Leave),
        Do(<<Page("next"), Call("completeDaily TREASURE false")>>, Leave)))))
    \cup On("decline", Bye("next"))>>)

n1052010 ==
  Once(Do(<<Given(Started(2057), <<Give(4031041, 1)>>),
            Unless(Started(2057), <<GiveThe("prizes[(random * 7)]")>>), Warp(103000100)>>, Leave))

n1052011 == Talk(StayUnlessEnd, <<
    Say("next"), On("yes", Say("nextPrev")) \cup On("no", Bye("ok")),
    On("yes", Say("yesNo")) \cup On("decline", Bye("ok")), Do(<<Warp(103000100)>>, Leave)>>)

n1052012 == Once(Bye("next"))
n1052015 == Talk(BackOrLeave, <<Say("simple"), Say("prev")>>)

n1052016 == But(Talk(BackOrLeave, <<
    Say("next"),
    If(AnyOf({Job(0), Job(1000), Job(2000)}), Keep("beginner=true", Say("simple")),
    Keep("beginner=false", Say("simple"))),
    When("beginner=true", Keep("beginner=true", Say("yesNo")))
    \cup When("beginner=false",
        If(AnyOf({Job(0), Job(1000), Job(2000)}), Keep("beginner=true", Say("yesNo")),
        Keep("beginner=false", Say("yesNo")))),
    When("beginner=true",
        If(MesosFor("(cost[selection] / 10)"),
          Do(<<PayFor("(cost[selection] / 10)"), WarpTo("maps[selection]")>>, Leave),
        Bye("next")))
    \cup When("beginner=false",
        If(AnyOf({Job(0), Job(1000), Job(2000)}),
          If(MesosFor("(cost[selection] / 10)"),
            Do(<<PayFor("(cost[selection] / 10)"), WarpTo("maps[selection]")>>, Leave),
          Bye("next")),
        If(MesosFor("cost[selection]"),
          Do(<<PayFor("cost[selection]"), WarpTo("maps[selection]")>>, Leave),
        Bye("next"))))>>),
    At(2, "decline", Bye("next")))

n1052017 == Once(Do(<<Call("getStorage().sendStorage 1052017")>>, Leave))

n1052100 == Talk(BackOrLeave, <<
    Say("simple"), If(Chose(1), Keep("beauty=1", Say("style")), Keep("beauty=2", Say("style"))),
    When("beauty=1",
        If(Has(5150003, 1), Do(<<Close, Take(5150003, 1), Call("setHair")>>, Say("ok")),
        If(Has(5420003, 1), Do(<<Close, Call("setHair")>>, Say("ok")), Bye("ok"))))
    \cup When("beauty=2",
        If(Has(5151003, 1), Do(<<Close, Take(5151003, 1), Call("setHair")>>, Say("ok")),
        Bye("ok")))>>)

n1052101 == Talk(BackOrLeave, <<
    Say("simple"),
    If(Chose(0),
      If(AnyOf({Fact("getGender() = 0"), Fact("getGender() = 1")}),
        Keep("beauty=3; hairnew=[style]", Say("yesNo")),
      Keep("beauty=3; hairnew=[]", Say("yesNo"))),
    If(Chose(1),
      If(AnyOf({Fact("getGender() = 0"), Fact("getGender() = 1")}),
        Keep("beauty=1; hairnew=[style]", Say("yesNo")),
      Keep("beauty=1; hairnew=[]", Say("yesNo"))),
    Keep("beauty=2; hairnew=[]", Say("yesNo")))),
    When("beauty=3; hairnew=[style]",
        If(Has(5150002, 1), Do(<<Close, Take(5150002, 1), Call("setHair")>>, Say("ok")),
        Bye("ok")))
    \cup When("beauty=3; hairnew=[]",
        If(Has(5150002, 1), Do(<<Close, Take(5150002, 1), Call("setHair")>>, Say("ok")),
        Bye("ok")))
    \cup When("beauty=1; hairnew=[style]",
        If(Has(5150011, 1), Do(<<Close, Take(5150011, 1), Call("setHair")>>, Say("ok")),
        Bye("ok")))
    \cup When("beauty=1; hairnew=[]",
        If(Has(5150011, 1), Do(<<Close, Take(5150011, 1), Call("setHair")>>, Say("ok")),
        Bye("ok")))
    \cup When("beauty=2; hairnew=[]",
        If(Has(5151002, 1), Do(<<Close, Take(5151002, 1), Call("setHair")>>, Say("ok")),
        Bye("ok")))>>)

n1052107 == Once(Bye("ok"))
n1052109 == Once(Bye("ok"))
n1052110 == Once(Bye("ok"))

n1052111 == Talk(BackOrLeave, <<
    If(Started(20710),
      If(Has(4032136, 1), Keep("page=ok", Say("ok")),
      If(Room(4032136, 1), Do(<<Give(4032136, 1)>>, Keep("page=next", Say("next"))),
      Keep("page=ok", Say("ok")))),
    Keep("page=ok", Say("ok"))), Leave>>)

n1052112 == Once(Bye("ok"))

n1052113 == Talk(BackOrLeave, <<
    If(Level(20), Bye("ok"), Say("simple")),
    If(Fact("getPlayerCount((910310000 + selection)) >= 5"), To(-1, Say("next")),
    Do(<<WarpTo("(910310000 + selection)")>>, Leave))>>)

n1052114 == n1052113

n1052125 == Opens(To(-1, Say("simple")),
    Talk(BackOrLeave, <<
    If(Chose(0),
      If(AnyOf({Started(2286), Started(2287), Started(2288)}),
        If(Fact("getEventManager('RockSpirit').startInstanc.."),
          Do(<<Call("getEventManager('RockSpirit').startInstance")>>, Leave),
        Do(<<Call("getEventManager('RockSpirit').startInstance")>>, Bye("ok"))),
      Bye("ok")),
    Bye("ok"))>>))

n1061000 == Talk(BackOrLeave, <<
    Say("simple"), Say("simple"),
    If(Chose(0), Keep("item=1072051", Say("yesNo")),
    If(Chose(1), Keep("item=1072034", Say("yesNo")),
    If(Chose(2), Keep("item=1072021", Say("yesNo")),
    If(Chose(3), Keep("item=1072087", Say("yesNo")), Keep("item=undefined", Say("yesNo")))))),
    When("item=1072051",
        If(AllOf({Room(1072051, 1), Mesos(10000), Has(4011004, 2), Has(4011001, 1),
                  Has(4000021, 15), Has(4003000, 10)}),
          Do(<<Take(4011004, 2), Take(4011001, 1), Take(4000021, 15), Take(4003000, 10),
               Pay(10000), Give(1072051, 1)>>, Bye("ok")),
        Bye("ok")))
    \cup When("item=1072034",
        If(AllOf({Room(1072034, 1), Mesos(9000), Has(4000021, 35), Has(4021003, 1),
                  Has(4003000, 10)}),
          Do(<<Take(4000021, 35), Take(4021003, 1), Take(4003000, 10), Pay(9000),
               Give(1072034, 1)>>, Bye("ok")),
        Bye("ok")))
    \cup When("item=1072021",
        If(AllOf({Room(1072021, 1), Mesos(3000), Has(4021000, 1), Has(4000021, 30),
                  Has(4003000, 5)}),
          Do(<<Take(4021000, 1), Take(4000021, 30), Take(4003000, 5), Pay(3000),
               Give(1072021, 1)>>, Bye("ok")),
        Bye("ok")))
    \cup When("item=1072087",
        If(AllOf({Room(1072087, 1), Mesos(9000), Has(4021004, 1), Has(4000021, 35),
                  Has(4003000, 10)}),
          Do(<<Take(4021004, 1), Take(4000021, 35), Take(4003000, 10), Pay(9000),
               Give(1072087, 1)>>, Bye("ok")),
        Bye("ok")))
    \cup When("item=undefined",
        If(AllOf({RoomFor("undefined,1"), MesosFor("undefined"), HasThe("undefined,undefined")}),
          Do(<<GiveThe("undefined,NaN"), EarnThe("NaN"), GiveThe("undefined")>>, Bye("ok")),
        Bye("ok")))>>)

n1061006 == Talk(BackUnlessEnd, <<
    On("open",
        If(AnyOf({Started(2054), Completed(2054), Started(2053), Completed(2053), Started(2052),
                  Completed(2052)}),
          Keep("zones=3", Say("next")),
        Keep("zones=0", Say("next"))))
    \cup On("decline", Idle), When("zones=3", Say("simple")) \cup When("zones=0", Leave),
    Do(<<WarpTo("maps[selection]")>>, Leave)>>)

n1061007 == Talk(BackOrLeave, <<Say("yesNo"), Do(<<Warp(105040300)>>, Leave)>>)
n1061008 == Once(Do(<<Call("getStorage().sendStorage 1061008")>>, Leave))

n1061010 == Talk(BackOrLeave, <<
    Say("yesNo"),
    If(InMap(108010101), Do(<<Warp(105040305)>>, Leave),
    If(InMap(108010201), Do(<<Warp(100040106)>>, Leave),
    If(InMap(108010301), Do(<<Warp(105070001)>>, Leave),
    If(InMap(108010401), Do(<<Warp(107000402)>>, Leave),
    If(InMap(108010501), Do(<<Warp(105070200)>>, Leave), Leave)))))>>)

n1061014 == Opens(
        If(AllOf({Fact("getLevel() < MapleExpeditionType.BALROG_NO.."),
                  Fact("getLevel() > MapleExpeditionType.BALROG_NO..")}),
          Bye("ok"),
        If(Fact("getExpedition(MapleExpeditionType.BALROG_N.."), To(1, Say("simple")),
        If(Fact("getExpedition(MapleExpeditionType.BALROG_N..4"),
          If(Fact("getExpedition(MapleExpeditionType.BALROG_N..5"), Bye("ok"),
          To(2, Say("simple"))),
        If(Fact("getExpedition(MapleExpeditionType.BALROG_N..6"),
          If(Fact("getExpedition(MapleExpeditionType.BALROG_N..7"), Bye("ok"),
          Do(<<Call("getExpedition(MapleExpeditionType.BALROG_N..2")>>, Bye("ok"))),
        If(Fact("getExpedition(MapleExpeditionType.BALROG_N..5"),
          If(AllOf({Fact("getExpedition(MapleExpeditionType.BALROG_N..7"),
                    Fact("getEventManager('BalrogBattle').getInstanc..")}),
            Do(<<Call("getEventManager('BalrogBattle').getInstanc..")>>, Leave),
          Bye("ok")),
        To(0, Idle)))))),
    Talk(Rule(0, -1, Gone, Gone), <<
    Idle,
    If(Chose(1),
      If(Fact("getExpedition(MapleExpeditionType.BALROG_N.."),
        Do(<<Call("createExpedition")>>, Bye("ok")),
      Bye("ok")),
    If(Chose(2), Bye("ok"), To(10, Say("simple")))),
    If(Chose(1),
      If(AnyOf({Fact("getExpedition(MapleExpeditionType.BALROG_N.."),
                Fact("getExpedition(MapleExpeditionType.BALROG_N..2")}),
        Bye("ok"),
      To(6, Say("simple"))),
    If(Chose(2),
      If(Fact("getExpedition(MapleExpeditionType.BALROG_N..3"), Bye("ok"), To(4, Say("ok"))),
    Do(<<Call("endExpedition")>>, Bye("ok")))), Idle,
    If(Fact("getEventManager('BalrogBattle') = null"), Bye("ok"),
    If(Fact("getEventManager('BalrogBattle').startInsta.."),
      Do(<<Call("getEventManager('BalrogBattle').setPropert.."),
           Call("getEventManager('BalrogBattle').setPropert..2"),
           Call("getEventManager('BalrogBattle').startInsta..")>>, Leave),
    Do(<<Call("getEventManager('BalrogBattle').setPropert.."),
         Call("getEventManager('BalrogBattle').setPropert..2"),
         Call("getEventManager('BalrogBattle').startInsta..")>>, Bye("ok")))), Idle,
    Do(<<Call("getExpedition(MapleExpeditionType.BALROG_N..")>>, Bye("ok")), Idle, Idle, Idle,
    Bye("ok")>>))

n1061016 == Talk(BackOrLeave, <<
    Say("simple"), Say("simple"),
    If(AllOf({RoomFor("itemids[selection],1"), Fact("haveItemWithId(4001261)")}),
      Do(<<Take(4001261, 1), GiveThe("itemids[selection]")>>, Bye("ok")),
    Bye("ok"))>>)

n1061018 == Talk(BackOrLeave, <<
    If(Fact("getEventInstance().isEventCleared()"), Keep("page=ok", Say("ok")),
    Keep("page=yesNo", Say("yesNo"))),
    If(Fact("getEventInstance().isEventCleared()"),
      If(InMap(105100300), Do(<<Warp(105100301)>>, Leave), Do(<<Warp(105100401)>>, Leave)),
    Do(<<Warp(105100100)>>, Leave))>>)

n1063000 ==
  Once(If(Started(2052),
         If(Has(4031025, 10),
           If(Fact("getInventory(MapleInventoryType.ETC).getNu.."),
             Do(<<GiveThe("repeatablePrizes[floor((random * 6))][0],r.."),
                  Warp(105040300)>>, Leave),
           Bye("next")),
         If(Room(4031025, 10), Do(<<Give(4031025, 10), Warp(105040300)>>, Leave), Bye("next"))),
       If(Fact("getInventory(MapleInventoryType.ETC).getNu.."),
         Do(<<GiveThe("repeatablePrizes[floor((random * 6))][0],r.."), Warp(105040300)>>, Leave),
       Bye("next"))))

n1063001 ==
  Once(If(Started(2053),
         If(Has(4031026, 20),
           If(Fact("getInventory(MapleInventoryType.ETC).getNu.."),
             Do(<<GiveThe("repeatablePrizes[floor((random * 3))][0],r.."),
                  Warp(105040300)>>, Leave),
           Bye("next")),
         If(Room(4031026, 20), Do(<<Give(4031026, 20), Warp(105040300)>>, Leave), Bye("next"))),
       If(Fact("getInventory(MapleInventoryType.ETC).getNu.."),
         Do(<<GiveThe("repeatablePrizes[floor((random * 3))][0],r.."), Warp(105040300)>>, Leave),
       Bye("next"))))

n1063002 ==
  Once(If(Started(2054),
         If(Has(4031028, 30),
           If(Fact("getInventory(MapleInventoryType.ETC).getNu.."),
             Do(<<GiveThe("repeatablePrizes[floor((random * 3))][0],r.."),
                  Warp(105040300)>>, Leave),
           Bye("next")),
         If(Room(4031028, 30), Do(<<Give(4031028, 30), Warp(105040300)>>, Leave), Bye("next"))),
       If(Fact("getInventory(MapleInventoryType.ETC).getNu.."),
         Do(<<GiveThe("repeatablePrizes[floor((random * 3))][0],r.."), Warp(105040300)>>, Leave),
       Bye("next"))))

n1063016 == Talk(BackOrLeave, <<Say("yesNo"), Do(<<Warp(105040201)>>, Leave)>>)

n1063017 == Talk(BackOrLeave, <<
    Say("yesNo"),
    If(Fact("getClient().getChannelServer().getMapFacto.."), Bye("ok"),
    Do(<<Call("getWarpMap(910510202).spawnMonsterOnGround.."), Warp(910510202)>>, Leave))>>)

n1072000 == Talk(BackOrLeave, <<
    If(Completed(100004), Bye("ok"),
    If(Completed(100003), To(4, Say("next")), If(Started(100003), Say("next"), Bye("ok")))),
    Say("nextPrev"), Say("nextPrev"), Say("yesNo"),
    Do(<<Page("next"), Complete(100003), Start(100004), Take(4031008, 1)>>, Idle),
    Do(<<Warp(108000300)>>, Leave)>>)

n1072001 == Talk(BackOrLeave, <<
    If(Completed(100007), Bye("ok"),
    If(Completed(100006), To(4, Say("next")), If(Started(100006), Say("next"), Bye("ok")))),
    Say("nextPrev"), Say("nextPrev"), Say("yesNo"),
    Do(<<Page("next"), Complete(100006), Start(100007), Take(4031009, 1)>>, Idle),
    Do(<<Warp(108000200)>>, Leave)>>)

n1072002 == Talk(BackOrLeave, <<
    If(Completed(100001), Bye("ok"),
    If(Completed(100000), To(3, Keep("page=next", Say("next"))),
    If(Started(100000), Say("next"), Bye("ok")))), Say("nextPrev"), Say("accept"),
    Do(<<Complete(100000), Start(100001), Take(4031010, 1)>>, Keep("page=ok", Say("ok"))),
    Do(<<Warp(108000100)>>, Leave)>>)

n1072003 == Talk(BackOrLeave, <<
    If(Completed(100010), Bye("ok"),
    If(Completed(100009), To(3, Keep("page=next", Say("next"))),
    If(Started(100009), Say("next"), Bye("ok")))), Say("nextPrev"), Say("accept"),
    Do(<<Page("ok"), Complete(100009), Start(100010), Take(4031011, 1)>>, Keep("page=ok", Idle)),
    Do(<<Warp(108000400)>>, Leave)>>)

n1072004 == Talk(BackOrLeave, <<
    If(Has(4031013, 30), Keep("completed=true", Say("next")),
    Keep("completed=false", Say("simple"))),
    When("completed=true",
        Do(<<TakeAll(4031013), Complete(100004), Start(100005), Give(4031012, 1),
             Warp(102020300)>>, Leave))
    \cup When("completed=false", Do(<<Warp(102020300)>>, Leave))>>)

n1072005 == Talk(BackOrLeave, <<
    If(Has(4031013, 30), Keep("completed=true", Say("next")),
    Keep("completed=false", Say("simple"))),
    When("completed=true",
        Do(<<TakeAll(4031013), Complete(100007), Start(100008), Give(4031012, 1),
             Warp(101020000)>>, Leave))
    \cup When("completed=false", Do(<<Warp(101020000)>>, Leave))>>)

n1072006 == Talk(BackOrLeave, <<
    If(Has(4031013, 30), Keep("completed=true", Say("ok")),
    Keep("completed=false", Say("simple"))),
    When("completed=true",
        Do(<<TakeAll(4031013), Complete(100001), Start(100002), Give(4031012, 1),
             Warp(106010000)>>, Leave))
    \cup When("completed=false", Do(<<Warp(106010000)>>, Leave))>>)

n1072007 == Talk(BackOrLeave, <<
    If(Has(4031013, 30), Keep("completed=true", Say("ok")),
    Keep("completed=false", Say("simple"))),
    When("completed=true",
        Do(<<TakeAll(4031013), Complete(100010), Start(100011), Give(4031012, 1),
             Warp(102040000)>>, Leave))
    \cup When("completed=false", Do(<<Warp(102040000)>>, Leave))>>)

n1072008 == Opens(
        If(InMap(108000502), If(Has(4031856, 15), To(2, Say("next")), Bye("next")),
        If(AllOf({InMap(108000501), Has(4031857, 15)}), To(2, Say("next")), Bye("next"))),
    Talk(Still, <<Idle, Idle, Do(<<Warp(120000101)>>, Leave)>>))

n1081001 == But(Talk(StayUnlessEnd, <<
    If(Fact("peekSavedLocation('FLORINA') = -1"), Keep("returnmap=104000000", Say("next")),
    Keep("returnmap=peekSavedLocation('FLORINA')", Say("next"))), Bye("next"),
    When("returnmap=104000000", Do(<<Warp(104000000)>>, Leave))
    \cup When("returnmap=peekSavedLocation('FLORINA')",
        Do(<<WarpTo("peekSavedLocation('FLORINA')")>>, Leave))>>),
    At(0, "yes",
      When("returnmap=104000000", Keep("returnmap=104000000", Say("yesNo")))
      \cup When("returnmap=peekSavedLocation('FLORINA')",
          Keep("returnmap=peekSavedLocation('FLORINA')", Say("yesNo")))))

n1091003 == Talk(BackOrLeave, <<
    Keep("case 1", Say("simple")),
    When("case 1", Keep("case 2", Say("simple")))
    \cup When("case 2",
        If(Chose(0), Keep("case 3", Say("yesNo")),
        If(Chose(1), Keep("case 4", Say("yesNo")),
        If(Chose(2), Keep("case 5", Say("yesNo")), Fail))))
    \cup When("case 3",
        If(Room(1482001, 1),
          If(AllOf({Mesos(1000), Has(4000021, 20)}),
            Do(<<Take(4000021, 20), Pay(1000), Give(1482001, 1)>>, Bye("ok")),
          Bye("next")),
        Bye("ok")))
    \cup When("case 4",
        If(Room(1492002, 1),
          If(AllOf({Mesos(2000), Has(4011000, 1), Has(4003000, 10), Has(4003001, 5),
                    Has(4000021, 10)}),
            Do(<<Take(4011000, 1), Take(4003000, 10), Take(4003001, 5), Take(4000021, 10),
                 Pay(2000), Give(1492002, 1)>>, Bye("ok")),
          Bye("next")),
        Bye("ok")))
    \cup When("case 5",
        If(Room(1082186, 1),
          If(AllOf({Mesos(15000), Has(4011000, 2), Has(4000021, 20)}),
            Do(<<Take(4011000, 2), Take(4000021, 20), Pay(15000), Give(1082186, 1)>>, Bye("ok")),
          Bye("next")),
        Bye("ok")))>>)

n1091004 == Once(Do(<<Call("getStorage().sendStorage 1091004")>>, Leave))

n1092000 == Talk(BackOrLeave, <<
    If(Started(2180), Say("next"), Leave), If(Started(2180), Say("nextPrev"), Leave),
    If(Started(2180),
      If(Room(4031847, 1), Do(<<Give(4031847, 1), Warp(912000100)>>, Leave), Bye("ok")),
    Leave)>>)

n1092007 == Talk(BackOrLeave, <<
    If(AllOf({Started(2175), Room(2030019, 1)}), Say("ok"), Bye("ok")),
    Do(<<Give(2030019, 1), Warp(100000006)>>, Leave)>>)

n1092008 == Talk(BackOrLeave, <<
    If(Started(6410), Say("yesNo"), Bye("ok")), Do(<<Warp(925010000)>>, Leave)>>)

n1092010 == Talk(BackOrLeave, <<
    If(Has(4220153, 1), Say("yesNo"), Bye("ok")), Do(<<Take(4220153, 1)>>, Leave)>>)

n1092014 == n1052016
n1092015 == Once(Bye("ok"))
n1092016 == Once(If(Started(2166), Do(<<Page("next"), Complete(2166)>>, Leave), Bye("next")))

n1092018 ==
  Once(If(AnyOf({Fact("getQuestStatus(2162) = 0"), Started(2162)}),
         If(Has(4031839, 1), Leave,
         If(Room(4031839, 1), Do(<<Give(4031839, 1)>>, Bye("next")), Bye("next"))),
       Leave))

n1092090 ==
  Once(If(Fact("getQuestProgress(2180,0) = 1"), Bye("next"),
       If(AllOf({Room(4031848, 1), Has(4031847, 1)}),
         Do(<<Page("next"), Take(4031847, 1), Give(4031848, 1),
              Call("setQuestProgress 2180 0 1")>>, Leave),
       If(AllOf({Room(4031849, 1), Has(4031848, 1)}),
         Do(<<Page("next"), Take(4031848, 1), Give(4031849, 1),
              Call("setQuestProgress 2180 0 1")>>, Leave),
       If(AllOf({Room(4031850, 1), Has(4031849, 1)}),
         Do(<<Page("next"), Take(4031849, 1), Give(4031850, 1),
              Call("setQuestProgress 2180 0 1")>>, Leave),
       Bye("next"))))))

n1092091 ==
  Once(If(Fact("getQuestProgress(2180,0) = 2"), Bye("next"),
       If(AllOf({Room(4031848, 1), Has(4031847, 1)}),
         Do(<<Page("next"), Take(4031847, 1), Give(4031848, 1),
              Call("setQuestProgress 2180 0 2")>>, Leave),
       If(AllOf({Room(4031849, 1), Has(4031848, 1)}),
         Do(<<Page("next"), Take(4031848, 1), Give(4031849, 1),
              Call("setQuestProgress 2180 0 2")>>, Leave),
       If(AllOf({Room(4031850, 1), Has(4031849, 1)}),
         Do(<<Page("next"), Take(4031849, 1), Give(4031850, 1),
              Call("setQuestProgress 2180 0 2")>>, Leave),
       Bye("next"))))))

n1094000 == But(Talk(BackOrLeave, <<
    If(Fact("hasDailyEntry('WATCHTOWER')"), Bye("ok"), Say("yesNo")),
    If(Fact("~~(random * 4) = 3"),
      Do(<<Page("next"), Give(4008002, 25), Call("completeDaily WATCHTOWER false")>>, Leave),
    If(Fact("~~(random * 4) = 1"),
      Do(<<Page("next"), Earn(50000), Call("completeDaily WATCHTOWER false")>>, Leave),
    If(Fact("~~(random * 4) = 2"),
      Do(<<Page("next"), Give(4008002, 10), Call("completeDaily WATCHTOWER false")>>, Leave),
    Do(<<Page("next"), Call("completeDaily WATCHTOWER false")>>, Leave))))>>),
    At(0, "decline", Bye("next")))

n1095000 == Talk(BackOrLeave, <<Say("yesNo"), Do(<<Warp(120000104)>>, Leave)>>)

n1095001 == Talk(BackOrLeave, <<
    If(Level(20), Bye("ok"), Say("simple")),
    If(Fact("getPlayerCount((912030000 + selection)) >= 5"), To(-1, Say("next")),
    Do(<<WarpTo("(912030000 + selection)")>>, Leave))>>)

n1095002 == n1095001
n1096001 == Once(Bye("ok"))
n1096003 == Once(Fail)
n1096005 == Once(Fail)

n1096010 ==
  Once(Do(<<
            Under({Started(2566), Room(4032985, 1)}, {Has(4032985, 1)},
              <<GiveThe("4032985,true")>>)>>, Leave))
=============================================================================
