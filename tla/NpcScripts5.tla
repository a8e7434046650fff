----------------------------- MODULE NpcScripts5 ----------------------------
(***************************************************************************)
(* Tables of the scripts under scripts/npc: Ludibrium.                     *)
(* n<id> is the conversation of a script, its start() and action().        *)
(***************************************************************************)
EXTENDS Dialogue

n2040000 == Once(Bye("ok"))

n2040002 == Talk(BackOrLeave, <<
    If(AllOf({Started(3230), Fact("getEventManager('DollHouse').getProperty('..")}), Say("next"),
    Bye("ok")), Say("yesNo"),
    If(Fact("getEventManager('DollHouse').startInstance.."),
      Do(<<Call("getEventManager('DollHouse').startInstance")>>, Leave),
    Do(<<Call("getEventManager('DollHouse').startInstance")>>, Bye("ok")))>>)

n2040003 == Opens(
        If(InMap(922000000), To(1, Keep("entry=0", Say("yesNo"))),
        If(Started(3239), To(1, Keep("entry=1", Say("yesNo"))), To(0, Say("ok")))),
    But(Talk(Rule(0, -1, Gone, 0), <<
    Idle,
    Do(<<Warp(922000009),
         Unless(Fact("isQuestStarted(3239) && haveItem(4031092,10)"), <<TakeAll(4031092)>>)>>, Leave)>>),
    At(1, "decline", When("entry=0", Bye("ok")) \cup When("entry=1", Leave))
    @@ At(1, "end", When("entry=0", Bye("ok")) \cup When("entry=1", Leave))
    @@ At(1, "yes",
         When("entry=1",
             If(Fact("getWarpMap(922000000).countPlayers() = 0"),
               Do(<<Warp(922000000),
                    Unless(Fact("isQuestStarted(3239) && haveItem(4031092,10)"),
                      <<TakeAll(4031092)>>)>>, Leave),
             Bye("ok")))
         \cup When("entry=0",
             Do(<<Warp(922000009),
                  Unless(Fact("isQuestStarted(3239) && haveItem(4031092,10)"),
                    <<TakeAll(4031092)>>)>>, Leave)))))

n2040014 == Opens(To(-1, Say("simple")),
    Talk(BackOrLeave, <<
    Say("yesNo"),
    If(MesosFor("(costSet[selection] * 1)"),
      If(Fact("matSet[selection] instanceof Array"),
        If(Fact("matSet[selection].length >= 1"),
          If(AllOf({HasThe("matSet[selection][0],(matQtySet[selection]..2"),
                    RoomFor("items[selection],1")}),
            Do(<<TakeThe("matSet[selection][0],(matQtySet[selection]..2"),
                 PayFor("(costSet[selection] * 1)"), GiveThe("items[selection]")>>, Bye("ok")),
          Bye("ok")),
        If(RoomFor("items[selection],1"),
          Do(<<PayFor("(costSet[selection] * 1)"), GiveThe("items[selection]")>>, Bye("ok")),
        Bye("ok"))),
      If(AllOf({HasThe("matSet[selection],(matQtySet[selection] * 1)"),
                RoomFor("items[selection],1")}),
        Do(<<TakeThe("matSet[selection],(matQtySet[selection] * 1)"),
             PayFor("(costSet[selection] * 1)"), GiveThe("items[selection]")>>, Bye("ok")),
      Bye("ok"))),
    Bye("ok"))>>))

n2040019 == Talk(BackOrLeave, <<
    Say("simple"),
    If(AnyOf({Fact("getGender() = 0"), Fact("getGender() = 1")}),
      Keep("facenew=[style]", Say("yesNo")),
    Keep("facenew=[]", Say("yesNo"))),
    If(Has(5152006, 1), Do(<<Close, Take(5152006, 1), Call("setFace")>>, Say("ok")), Bye("ok"))>>)

n2040020 == Talk(BackOrLeave, <<
    Say("simple"),
    If(Fact("selection > 4"), Keep("stimulator=true", Say("simple")),
    If(Chose(0), Bye("next"), Keep("stimulator=false", Say("simple")))),
    When("stimulator=true",
        If(Chose(1), Keep("item=1082008; stimulator=true", Say("yesNo")),
        If(Chose(2), Keep("item=1082071; stimulator=true", Say("yesNo")),
        If(Chose(3), Keep("item=1082081; stimulator=true", Say("yesNo")),
        If(Chose(4), Keep("item=undefined; stimulator=true", Say("yesNo")),
        If(Chose(5), Keep("item=1082025; stimulator=true", Say("yesNo")),
        If(Chose(6), Keep("item=1082085; stimulator=true", Say("yesNo")),
        If(Chose(7), Keep("item=1082080; stimulator=true", Say("yesNo")),
        Keep("item=undefined; stimulator=true", Say("yesNo"))))))))))
    \cup When("stimulator=false",
        If(Chose(1), Keep("item=1082008; stimulator=false", Say("yesNo")),
        If(Chose(2), Keep("item=1082071; stimulator=false", Say("yesNo")),
        If(Chose(3), Keep("item=1082081; stimulator=false", Say("yesNo")),
        Keep("item=undefined; stimulator=false", Say("yesNo")))))),
    When("item=1082008; stimulator=true",
        If(AllOf({Room(1082008, 1), Mesos(27000), Has(4000021, 30), Has(4011001, 4),
                  Has(4003000, 15), Has(4130000, 1)}),
          If(Fact("floor((random * 10)) = 0"),
            Do(<<Take(4000021, 30), Take(4011001, 4), Take(4003000, 15), Pay(27000),
                 Take(4130000, 1)>>, Bye("ok")),
          Do(<<Take(4000021, 30), Take(4011001, 4), Take(4003000, 15), Pay(27000),
               Take(4130000, 1)>>, Fail)),
        Bye("ok")))
    \cup When("item=1082071; stimulator=true",
        If(AllOf({Room(1082071, 1), Mesos(36000), Has(4011001, 3), Has(4021000, 1),
                  Has(4021002, 3), Has(4000021, 80), Has(4003000, 25), Has(4130000, 1)}),
          If(Fact("floor((random * 10)) = 0"),
            Do(<<Take(4011001, 3), Take(4021000, 1), Take(4021002, 3), Take(4000021, 80),
                 Take(4003000, 25), Pay(36000), Take(4130000, 1)>>, Bye("ok")),
          Do(<<Take(4011001, 3), Take(4021000, 1), Take(4021002, 3), Take(4000021, 80),
               Take(4003000, 25), Pay(36000), Take(4130000, 1)>>, Fail)),
        Bye("ok")))
    \cup When("item=1082081; stimulator=true",
        If(AllOf({Room(1082081, 1), Mesos(45000), Has(4021000, 3), Has(4011006, 2),
                  Has(4000030, 35), Has(4003000, 40), Has(4130000, 1)}),
          If(Fact("floor((random * 10)) = 0"),
            Do(<<Take(4021000, 3), Take(4011006, 2), Take(4000030, 35), Take(4003000, 40),
                 Pay(45000), Take(4130000, 1)>>, Bye("ok")),
          Do(<<Take(4021000, 3), Take(4011006, 2), Take(4000030, 35), Take(4003000, 40),
               Pay(45000), Take(4130000, 1)>>, Fail)),
        Bye("ok")))
    \cup When("item=undefined; stimulator=true",
        If(AllOf({RoomFor("undefined,1"), MesosFor("undefined"), HasThe("undefined,undefined"),
                  Has(4130000, 1)}),
          If(Fact("floor((random * 10)) = 0"),
            Do(<<GiveThe("undefined,NaN"), EarnThe("NaN"), Take(4130000, 1)>>, Bye("ok")),
          Do(<<GiveThe("undefined,NaN"), EarnThe("NaN"), Take(4130000, 1)>>, Fail)),
        Bye("ok")))
    \cup When("item=1082025; stimulator=true",
        If(AllOf({Room(1082025, 1), Mesos(45000), Has(1082023, 1), Has(4021008, 2),
                  Has(4130000, 1)}),
          If(Fact("floor((random * 10)) = 0"),
            Do(<<Take(1082023, 1), Take(4021008, 2), Pay(45000), Take(4130000, 1)>>, Bye("ok")),
          Do(<<Take(1082023, 1), Take(4021008, 2), Pay(45000), Take(4130000, 1)>>, Fail)),
        Bye("ok")))
    \cup When("item=1082085; stimulator=true",
        If(AllOf({Room(1082085, 1), Mesos(49500), Has(1082084, 1), Has(4011000, 1),
                  Has(4021000, 5), Has(4130000, 1)}),
          If(Fact("floor((random * 10)) = 0"),
            Do(<<Take(1082084, 1), Take(4011000, 1), Take(4021000, 5), Pay(49500),
                 Take(4130000, 1)>>, Bye("ok")),
          Do(<<Take(1082084, 1), Take(4011000, 1), Take(4021000, 5), Pay(49500),
               Take(4130000, 1)>>, Fail)),
        Bye("ok")))
    \cup When("item=1082080; stimulator=true",
        If(AllOf({Room(1082080, 1), Mesos(54000), Has(1082081, 1), Has(4021008, 3),
                  Has(4130000, 1)}),
          If(Fact("floor((random * 10)) = 0"),
            Do(<<Take(1082081, 1), Take(4021008, 3), Pay(54000), Take(4130000, 1)>>, Bye("ok")),
          Do(<<Take(1082081, 1), Take(4021008, 3), Pay(54000), Take(4130000, 1)>>, Fail)),
        Bye("ok")))
    \cup When("item=1082008; stimulator=false",
        If(AllOf({Room(1082008, 1), Mesos(27000), Has(4000021, 30), Has(4011001, 4),
                  Has(4003000, 15)}),
          Do(<<Take(4000021, 30), Take(4011001, 4), Take(4003000, 15), Pay(27000),
               Give(1082008, 1)>>, Bye("ok")),
        Bye("ok")))
    \cup When("item=1082071; stimulator=false",
        If(AllOf({Room(1082071, 1), Mesos(36000), Has(4011001, 3), Has(4021000, 1),
                  Has(4021002, 3), Has(4000021, 80), Has(4003000, 25)}),
          Do(<<Take(4011001, 3), Take(4021000, 1), Take(4021002, 3), Take(4000021, 80),
               Take(4003000, 25), Pay(36000), Give(1082071, 1)>>, Bye("ok")),
        Bye("ok")))
    \cup When("item=1082081; stimulator=false",
        If(AllOf({Room(1082081, 1), Mesos(45000), Has(4021000, 3), Has(4011006, 2),
                  Has(4000030, 35), Has(4003000, 40)}),
          Do(<<Take(4021000, 3), Take(4011006, 2), Take(4000030, 35), Take(4003000, 40),
               Pay(45000), Give(1082081, 1)>>, Bye("ok")),
        Bye("ok")))
    \cup When("item=undefined; stimulator=false",
        If(AllOf({RoomFor("undefined,1"), MesosFor("undefined"), HasThe("undefined,undefined")}),
          Do(<<GiveThe("undefined,NaN"), EarnThe("NaN"), GiveThe("undefined")>>, Bye("ok")),
        Bye("ok")))>>)

n2040022 == Talk(BackOrLeave, <<
    Say("simple"),
    If(Fact("selection > 4"),
      If(Fact("(selection - 4) = 0"), Bye("next"),
      If(AnyOf({Fact("(selection - 4) = 1"), Fact("(selection - 4) = 2"),
                Fact("(selection - 4) = 3"), Fact("(selection - 4) = 4")}),
        Keep("stimulator=true", Say("simple")),
      Fail)),
    If(Chose(0), Bye("next"), Keep("stimulator=false", Say("simple")))),
    When("stimulator=true",
        If(AnyOf({Fact("(selection - 4) = 1"), Fact("(selection - 4) = 2"),
                  Fact("(selection - 4) = 3"), Fact("(selection - 4) = 4")}),
          Keep("cost=costSet[selection]", Say("yesNo")),
        Fail))
    \cup When("stimulator=false",
        If(Chose(1), Keep("cost=35000", Say("yesNo")),
        If(Chose(2), Keep("cost=40000", Say("yesNo")),
        If(Chose(3), Keep("cost=100000", Say("yesNo")),
        If(Chose(4), Keep("cost=230000", Say("yesNo")), Keep("cost=undefined", Say("yesNo"))))))),
    When("cost=costSet[selection]",
        If(AllOf({RoomFor("itemSet[selection],1"), MesosFor("costSet[selection]")}),
          If(Fact("matSet[selection] instanceof Array"),
            If(Fact("matSet[selection].length >= 1"),
              If(Fact("(matQtySet[selection][0] * -1) = 1"),
                If(AllOf({HasThe("matSet[selection][0]"), HasThe("(matSet[selection][0] - 998)")}),
                  If(Fact("floor((random * 10)) = 0"),
                    Do(<<TakeThe("matSet[selection][0],matQtySet[selection][0]"),
                         PayFor("costSet[selection]"),
                         TakeThe("(matSet[selection][0] - 998)")>>, Bye("ok")),
                  Do(<<TakeThe("matSet[selection][0],matQtySet[selection][0]"),
                       PayFor("costSet[selection]"), TakeThe("(matSet[selection][0] - 998)"),
                       GiveThe("itemSet[selection]")>>, Bye("ok"))),
                Bye("ok")),
              If(AllOf({HasThe("matSet[selection][0],(matQtySet[selection]..3"),
                        HasThe("(matSet[selection][0] - 998)")}),
                If(Fact("floor((random * 10)) = 0"),
                  Do(<<TakeThe("matSet[selection][0],matQtySet[selection][0]"),
                       PayFor("costSet[selection]"),
                       TakeThe("(matSet[selection][0] - 998)")>>, Bye("ok")),
                Do(<<TakeThe("matSet[selection][0],matQtySet[selection][0]"),
                     PayFor("costSet[selection]"), TakeThe("(matSet[selection][0] - 998)"),
                     GiveThe("itemSet[selection]")>>, Bye("ok"))),
              Bye("ok"))),
            If(HasThe("(matSet[selection][0] - 998)"),
              If(Fact("floor((random * 10)) = 0"),
                Do(<<PayFor("costSet[selection]"),
                     TakeThe("(matSet[selection][0] - 998)")>>, Bye("ok")),
              Do(<<PayFor("costSet[selection]"), TakeThe("(matSet[selection][0] - 998)"),
                   GiveThe("itemSet[selection]")>>, Bye("ok"))),
            Bye("ok"))),
          If(AllOf({HasThe("matSet[selection],(matQtySet[selection] *..2"),
                    HasThe("(matSet[selection][0] - 998)")}),
            If(Fact("floor((random * 10)) = 0"),
              Do(<<TakeThe("matSet[selection],matQtySet[selection]"),
                   PayFor("costSet[selection]"),
                   TakeThe("(matSet[selection][0] - 998)")>>, Bye("ok")),
            Do(<<TakeThe("matSet[selection],matQtySet[selection]"), PayFor("costSet[selection]"),
                 TakeThe("(matSet[selection][0] - 998)"),
                 GiveThe("itemSet[selection]")>>, Bye("ok"))),
          Bye("ok"))),
        Bye("ok")))
    \cup When("cost=35000",
        If(AllOf({Room(1302004, 1), Mesos(35000), HasThe("4131000,-1"), HasThe("4011006,-1"),
                  HasThe("4011001,-5"), HasThe("4021006,-3"), HasThe("4003000,-35")}),
          Do(<<Take(4131000, 1), Take(4011006, 1), Take(4011001, 5), Take(4021006, 3),
               Take(4003000, 35), Pay(35000), Give(1302004, 1)>>, Bye("ok")),
        Bye("ok")))
    \cup When("cost=40000",
        If(AllOf({Room(1452007, 1), Mesos(40000), HasThe("4131010,-1"), HasThe("4021008,-1"),
                  HasThe("4011001,-10"), HasThe("4011006,-3"), HasThe("4003000,-40"),
                  HasThe("4000112,-100")}),
          Do(<<Take(4131010, 1), Take(4021008, 1), Take(4011001, 10), Take(4011006, 3),
               Take(4003000, 40), Take(4000112, 100), Pay(40000), Give(1452007, 1)>>, Bye("ok")),
        Bye("ok")))
    \cup When("cost=100000",
        If(AllOf({Room(1372007, 1), Mesos(100000), HasThe("4131008,-1"), HasThe("4011006,-4"),
                  HasThe("4021003,-3"), HasThe("4021007,-2"), HasThe("4021002,-1"),
                  HasThe("4003000,-30")}),
          Do(<<Take(4131008, 1), Take(4011006, 4), Take(4021003, 3), Take(4021007, 2),
               Take(4021002, 1), Take(4003000, 30), Pay(100000), Give(1372007, 1)>>, Bye("ok")),
        Bye("ok")))
    \cup When("cost=230000",
        If(AllOf({Room(1332016, 1), Mesos(230000), HasThe("4131012,-1"), HasThe("4005003,-1"),
                  HasThe("4021008,-2"), HasThe("4011004,-7"), HasThe("4011001,-10"),
                  HasThe("4003000,-50")}),
          Do(<<Take(4131012, 1), Take(4005003, 1), Take(4021008, 2), Take(4011004, 7),
               Take(4011001, 10), Take(4003000, 50), Pay(230000), Give(1332016, 1)>>, Bye("ok")),
        Bye("ok")))
    \cup When("cost=undefined",
        If(AllOf({RoomFor("undefined,1"), MesosFor("undefined"), HasThe("undefined,NaN")}),
          Do(<<GiveThe("undefined,NaN"), EarnThe("NaN"), GiveThe("undefined")>>, Bye("ok")),
        Bye("ok")))>>)

n2040024 == Talk(BackOrLeave, <<
    If(Has(4001020, 1), Say("yesNo"), Bye("ok")),
    Do(<<Take(4001020, 1), Warp(221022900)>>, Leave)>>)

n2040025 == Talk(BackOrLeave, <<
    If(Has(4001020, 1), Say("simple"), Bye("ok")),
    If(Chose(0), Keep("map=221024400", Say("yesNo")), Keep("map=221021700", Say("yesNo"))),
    When("map=221024400", Do(<<Take(4001020, 1), Warp(221024400)>>, Leave))
    \cup When("map=221021700", Do(<<Take(4001020, 1), Warp(221021700)>>, Leave))>>)

n2040026 == Talk(BackOrLeave, <<
    If(Has(4001020, 1), Say("simple"), Bye("ok")),
    If(Chose(0), Keep("map=221022900", Say("yesNo")), Keep("map=221020000", Say("yesNo"))),
    When("map=221022900", Do(<<Take(4001020, 1), Warp(221022900)>>, Leave))
    \cup When("map=221020000", Do(<<Take(4001020, 1), Warp(221020000)>>, Leave))>>)

n2040027 == Talk(BackOrLeave, <<
    If(Has(4001020, 1), Say("yesNo"), Bye("ok")),
    Do(<<Take(4001020, 1), Warp(221021700)>>, Leave)>>)

n2040028 == Talk(BackOrLeave, <<
    Do(<<
         Under({Started(3230), Has(4031094, 1)}, {}, <<Complete(3230), Take(4031094, 1)>>)>>, Say("yesNo")),
    Do(<<Warp(221024400)>>, Leave)>>)

n2040031 == Once(Bye("ok"))

n2040032 == But(Talk(BackOrLeave, <<
    Say("yesNo"), If(Has(4031128, 1), Bye("next"), Do(<<Give(4031128, 1)>>, Bye("ok")))>>),
    At(0, "decline", Bye("next")))

n2040033 == Talk(BackOrLeave, <<
    If(Has(4031128, 1), Say("next"), Bye("ok")),
    If(Fact("getNoPets() = 0"), Bye("nextPrev"),
    Do(<<Take(4031128, 1), Call("gainCloseness 4")>>, Bye("nextPrev")))>>)

n2040034 == Talk(BackOrLeave, <<
    If(Fact("getEventManager('LudiPQ') = null"), Bye("ok"),
    If(Fact("isUsingOldPqNpcStyle()"),
      If(Fact("getParty() = null"), Bye("ok"),
      If(AllOf({Fact("isLeader()"), Fact("getEventManager('LudiPQ').getEligibleParty..")}),
        If(Fact("getEventManager('LudiPQ').startInstance(ge.."),
          Do(<<Call("getEventManager('LudiPQ').startInstance 1")>>, Leave),
        Do(<<Call("getEventManager('LudiPQ').startInstance 1")>>, Bye("ok"))),
      Bye("ok"))),
    Say("simple"))),
    If(Chose(0),
      If(Fact("getParty() = null"), Bye("ok"),
      If(AllOf({Fact("isLeader()"), Fact("getEventManager('LudiPQ').getEligibleParty..")}),
        If(Fact("getEventManager('LudiPQ').startInstance(ge.."),
          Do(<<Call("getEventManager('LudiPQ').startInstance 1")>>, Leave),
        Do(<<Call("getEventManager('LudiPQ').startInstance 1")>>, Bye("ok"))),
      Bye("ok"))),
    Bye("ok"))>>)

n2040035 == Talk(BackOrLeave, <<
    Say("next"),
    If(Fact("getEventInstance().giveEventReward(getPlay.."),
      Do(<<Call("getEventInstance().giveEventReward"),
           Call("getEventInstance().givePQTourDrops Ludibri.."), Warp(221024500)>>, Leave),
    Do(<<Call("getEventInstance().giveEventReward")>>, Bye("next")))>>)

n2040036 ==
  Once(If(AllOf({Fact("getEventInstance().getProperty('{(floor.."),
                 Fact("getEventInstance().isEventLeader(getPlayer..")}),
         If(Fact("getEventInstance().getIntProperty('statusS.."),
           Do(<<Page("ok"), Call("getEventInstance().setProperty 0")>>, Leave),
         If(Has(4001022, 25),
           Do(<<Page("ok"), Take(4001022, 25), Call("getEventInstance().setProperty 1"),
                Call("getEventInstance().setProperty true"),
                Call("getEventInstance().linkToNextStage lpq")>>, Leave),
         Bye("next"))),
       Bye("next")))

n2040037 ==
  Once(If(AllOf({Fact("getEventInstance().getProperty('{(floor.."),
                 Fact("getEventInstance().isEventLeader(getPlayer..")}),
         If(Fact("getEventInstance().getIntProperty('statusS.."),
           Do(<<Page("ok"), Call("getEventInstance().setProperty 0")>>, Leave),
         If(Has(4001022, 15),
           Do(<<Page("ok"), Take(4001022, 15), Call("getEventInstance().setProperty 1"),
                Call("getEventInstance().setProperty true"),
                Call("getEventInstance().linkToNextStage lpq")>>, Leave),
         Bye("next"))),
       Bye("next")))

n2040038 ==
  Once(If(AllOf({Fact("getEventInstance().getProperty('{(floor.."),
                 Fact("getEventInstance().isEventLeader(getPlayer..")}),
         If(Fact("getEventInstance().getIntProperty('statusS.."),
           Do(<<Page("ok"), Call("getEventInstance().setProperty 0")>>, Leave),
         If(Has(4001022, 32),
           Do(<<Page("ok"), Take(4001022, 32), Call("getEventInstance().setProperty 1"),
                Call("getEventInstance().setProperty true"),
                Call("getEventInstance().linkToNextStage lpq")>>, Leave),
         Bye("next"))),
       Bye("next")))

n2040039 ==
  Once(If(AllOf({Fact("getEventInstance().getProperty('{(floor.."),
                 Fact("getEventInstance().isEventLeader(getPlayer..")}),
         If(Fact("getEventInstance().getIntProperty('statusS.."),
           Do(<<Page("ok"), Call("getEventInstance().setProperty 0")>>, Leave),
         If(Has(4001022, 6),
           Do(<<Page("ok"), Take(4001022, 6), Call("getEventInstance().setProperty 1"),
                Call("getEventInstance().setProperty true"),
                Call("getEventInstance().linkToNextStage lpq")>>, Leave),
         Bye("next"))),
       Bye("next")))

n2040040 ==
  Once(If(AllOf({Fact("getEventInstance().getProperty('{(floor.."),
                 Fact("getEventInstance().isEventLeader(getPlayer..")}),
         If(Fact("getEventInstance().getIntProperty('statusS.."),
           Do(<<Page("ok"), Call("getEventInstance().setProperty 0")>>, Leave),
         If(Has(4001022, 24),
           Do(<<Page("ok"), Take(4001022, 24), Call("getEventInstance().setProperty 1"),
                Call("getEventInstance().setProperty true"),
                Call("getEventInstance().linkToNextStage lpq")>>, Leave),
         Bye("next"))),
       Bye("next")))

n2040041 == Once(Bye("ok"))

n2040042 ==
  Once(If(AllOf({Fact("getEventInstance().getProperty('{(floor.."),
                 Fact("getEventInstance().isEventLeader(getPlayer..")}),
         If(Fact("getEventInstance().getIntProperty('statusS.."),
           Do(<<Page("ok"), Call("getEventInstance().setProperty 0")>>, Leave),
         If(Fact("getEventInstance().getIntProperty('statusS..2"),
           If(Has(4001022, 3),
             Do(<<Page("ok"), Take(4001022, 3), Call("getEventInstance().setProperty 1"),
                  Call("getEventInstance().setProperty true"),
                  Call("getEventInstance().linkToNextStage lpq")>>, Leave),
           Bye("next")),
         Leave)),
       Bye("next")))

n2040044 ==
  Once(If(AllOf({Fact("getEventInstance().getProperty('{(floor.."),
                 Fact("getEventInstance().isEventLeader(getPlayer..")}),
         If(Fact("getEventInstance().getIntProperty('statusS.."),
           Do(<<Page("ok"), Call("getEventInstance().setProperty 0")>>, Leave),
         If(Has(4001023, 1),
           Do(<<Take(4001023, 1), Call("getEventInstance().setProperty 1"),
                Call("getEventInstance().giveEventPlayersExp"),
                Call("getEventInstance().giveEventPlayersMeso"),
                Call("getEventInstance().setProperty true"),
                Call("getEventInstance().clearPQ")>>, Leave),
         Bye("next"))),
       Bye("next")))

n2040045 == Talk(StayUnlessEnd, <<
    On("open", Say("yesNo")) \cup On("decline", Bye("ok")), Do(<<Warp(922011100)>>, Leave)>>)

n2040046 == Talk(StayUnlessEnd, <<
    On("open", Say("yesNo")) \cup On("decline", Bye("next")),
    On("yes", Say("yesNo")) \cup On("decline", Bye("next")),
    If(Fact("getBuddylist().getCapacity() >= 50"), Bye("next"),
    If(Mesos(240000), Do(<<Pay(240000), Call("setBuddyCapacity")>>, Bye("ok")), Bye("next")))>>)

n2040047 == Talk(BackOrLeave, <<
    If(InMap(922010000), Keep("page=next", Say("next")), Keep("page=yesNo", Say("yesNo"))),
    If(InMap(922010000), Do(<<Warp(221024500)>>, Leave), Do(<<Warp(922010000)>>, Leave))>>)

n2040048 == But(Talk(BackOrLeave, <<
    Say("simple"),
    If(Chose(0), Keep("check=0", Say("yesNo")),
    If(Chose(1), Keep("check=1", Say("yesNo")), To(3, Say("next")))),
    When("check=0",
        If(Mesos(1800), Do(<<Pay(1800), Call("saveLocation FLORINA"), Warp(110000000)>>, Leave),
        Bye("ok")))
    \cup When("check=1",
        If(Has(4031134, 1), Do(<<Call("saveLocation FLORINA"), Warp(110000000)>>, Leave),
        Bye("ok"))), Say("next"), Say("prev")>>),
    At(1, "decline", Bye("next")))

n2040050 == Opens(To(1, Say("simple")),
    But(Talk(BackOrLeave, <<
    Idle, Idle, Say("simple"), Say("yesNo"),
    If(AllOf({HasThe("reqset[selection][selection][0][0],reqset[.."),
              HasThe("reqset[selection][selection][1][0],reqset[.."),
              HasThe("reqset[selection][selection][2][0],reqset[.."),
              RoomFor("makeditem[selection]"), Mesos(4000)}),
      Do(<<Page("ok"), TakeThe("reqset[selection][selection][0][0],reqset[.."),
           TakeThe("reqset[selection][selection][1][0],reqset[.."),
           TakeThe("reqset[selection][selection][2][0],reqset[.."), Pay(4000),
           GiveThe("makeditem[selection],5")>>, Leave),
    Bye("next"))>>),
    At(3, "decline", Do(<<Page("next")>>, Bye("yesNo")))))

n2041000 == But(Talk(BackOrLeave, <<
    Say("yesNo"), If(Mesos(10000), Do(<<Pay(10000), Warp(200000121)>>, Leave), Bye("ok"))>>),
    At(0, "decline", Bye("ok")))

n2041001 == Opens(To(1, Say("yesNo")),
    Talk(BackOrLeave, <<
    Idle, Idle, Say("next"),
    If(InMap(200000122), Do(<<Warp(200000121)>>, Leave), Do(<<Warp(220000110)>>, Leave))>>))

n2041007 == Talk(BackOrLeave, <<
    Say("simple"), If(Chose(1), Keep("beauty=1", Say("style")), Keep("beauty=2", Say("style"))),
    When("beauty=1",
        If(Has(5150007, 1), Do(<<Close, Take(5150007, 1), Call("setHair")>>, Say("ok")),
        If(Has(5420005, 1), Do(<<Close, Call("setHair")>>, Say("ok")), Bye("ok"))))
    \cup When("beauty=2",
        If(Has(5151007, 1), Do(<<Close, Take(5151007, 1), Call("setHair")>>, Say("ok")),
        Bye("ok")))>>)

n2041008 == Once(Do(<<Call("getStorage().sendStorage 2041008")>>, Leave))

n2041009 == Talk(BackOrLeave, <<
    Say("simple"),
    If(Chose(0), Keep("beauty=3; hairnew=[style]", Say("yesNo")),
    If(Chose(1),
      If(AnyOf({Fact("getGender() = 0"), Fact("getGender() = 1")}),
        Keep("beauty=1; hairnew=[style]", Say("yesNo")),
      Keep("beauty=1; hairnew=[]", Say("yesNo"))),
    Keep("beauty=2; hairnew=[]", Say("yesNo")))),
    When("beauty=3; hairnew=[style]",
        If(Has(5150006, 1), Do(<<Close, Take(5150006, 1)>>, Fail), Bye("ok")))
    \cup When("beauty=1; hairnew=[style]",
        If(Has(5150012, 1), Do(<<Close, Take(5150012, 1), Call("setHair")>>, Say("ok")),
        Bye("ok")))
    \cup When("beauty=1; hairnew=[]",
        If(Has(5150012, 1), Do(<<Close, Take(5150012, 1), Call("setHair")>>, Say("ok")),
        Bye("ok")))
    \cup When("beauty=2; hairnew=[]",
        If(Has(5151006, 1), Do(<<Close, Take(5151006, 1), Call("setHair")>>, Say("ok")),
        Bye("ok")))>>)

n2041010 == Talk(BackOrLeave, <<
    Say("simple"), Say("style"),
    If(Has(5152007, 1), Do(<<Close, Take(5152007, 1), Call("setFace")>>, Say("ok")), Bye("ok"))>>)

n2041013 == Talk(BackOrLeave, <<
    Say("simple"), Say("style"),
    If(Has(5153002, 1), Do(<<Close, Take(5153002, 1), Call("setSkin")>>, Say("ok")), Bye("ok"))>>)

n2041017 == Once(Bye("ok"))

n2041023 == Talk(BackOrLeave, <<
    If(Completed(6316),
      If(AnyOf({Started(6225), Started(6315)}),
        If(Fact("getEventManager('ElementalBattle') = null"), Bye("ok"),
        If(Fact("isUsingOldPqNpcStyle()"),
          If(Fact("getParty() = null"), Bye("ok"),
          If(AllOf({Fact("isLeader()"), Fact("getEventManager('ElementalBattle').getElig..")}),
            If(Fact("getEventManager('ElementalBattle').startIn.."),
              Do(<<Call("getEventManager('ElementalBattle').startIn..")>>, Leave),
            Do(<<Call("getEventManager('ElementalBattle').startIn..")>>, Bye("ok"))),
          Bye("ok"))),
        Say("simple"))),
      Bye("ok")),
    Bye("ok")),
    If(Chose(0),
      If(Fact("getParty() = null"), Bye("ok"),
      If(AllOf({Fact("isLeader()"), Fact("getEventManager('ElementalBattle').getElig..")}),
        If(Fact("getEventManager('ElementalBattle').startIn.."),
          Do(<<Call("getEventManager('ElementalBattle').startIn..")>>, Leave),
        Do(<<Call("getEventManager('ElementalBattle').startIn..")>>, Bye("ok"))),
      Bye("ok"))),
    Bye("ok"))>>)

n2041024 == Once(Bye("ok"))
n2041025 == Talk(BackOrLeave, <<Say("yesNo"), Do(<<Warp(220080000)>>, Leave)>>)
n2041026 == Once(If(Has(4220046, 1), Do(<<Take(4220046, 1)>>, Bye("ok")), Bye("ok")))

n2041027 == But(Talk(BackOrLeave, <<
    If(Fact("hasDailyEntry('MASON')"), Bye("ok"), Say("yesNo")),
    If(Fact("~~(random * 4) = 3"),
      Do(<<Page("next"), Give(4008002, 25), Call("completeDaily MASON false")>>, Leave),
    If(Fact("~~(random * 4) = 1"),
      Do(<<Page("next"), Earn(50000), Call("completeDaily MASON false")>>, Leave),
    If(Fact("~~(random * 4) = 2"),
      Do(<<Page("next"), Give(4008002, 10), Call("completeDaily MASON false")>>, Leave),
    Do(<<Page("next"), Call("completeDaily MASON false")>>, Leave))))>>),
    At(0, "decline", Bye("next")))

n2041029 == Once(Bye("ok"))
n2042003 == Once(Do(<<Call("warpParty 980000000")>>, Leave))
n2042004 == Once(Do(<<Call("warpParty 980000000")>>, Leave))

n2042005 == Talk(BackOrLeave, <<
    If(Fact("getParty() = null"), Say("ok"),
    If(Fact("isLeader()"),
      If(AllOf({Fact("getParty().getMembers().size() >= 1"),
                Fact("getParty().getMembers().get(0).getLevel()..")}),
        If(Fact("getParty().getMembers().get(0).getLevel()..2"),
          If(Fact("getParty().getMembers() >= 1"), Say("ok"),
          If(Fact("partyMembersInMap() = 0"),
            If(Fact("sendCPQMapLists2()#1"), Do(<<Call("sendCPQMapLists2")>>, Idle),
            Do(<<Call("sendCPQMapLists2")>>, Bye("ok"))),
          Say("ok"))),
        If(Fact("getParty().getMembers().get(0).getMapId().."),
          If(Fact("getParty().getMembers() >= 1"), Say("ok"),
          If(Fact("partyMembersInMap() = 1"),
            If(Fact("sendCPQMapLists2()#1"), Do(<<Call("sendCPQMapLists2")>>, Idle),
            Do(<<Call("sendCPQMapLists2")>>, Bye("ok"))),
          Say("ok"))),
        Say("ok"))),
      If(Fact("getParty().getMembers() >= 1"), Say("ok"),
      If(Fact("partyMembersInMap() = 0"),
        If(Fact("sendCPQMapLists2()#1"), Do(<<Call("sendCPQMapLists2")>>, Idle),
        Do(<<Call("sendCPQMapLists2")>>, Bye("ok"))),
      Say("ok")))),
    Say("ok"))), Leave>>)

n2042007 == Talk(BackOrLeave, <<
    If(InMap(980030010), Keep("rnk=-1", Say("next")),
    If(Fact("getMap().isCPQLoserMap()"),
      If(Fact("getParty() = null"), Do(<<Warp(980030000)>>, Leave),
      If(Fact("getFestivalPoints() >= 300"), Keep("rnk=10", Say("ok")),
      If(Fact("getFestivalPoints() >= 100"), Keep("rnk=20", Say("ok")),
      If(Fact("getFestivalPoints() >= 50"), Keep("rnk=30", Say("ok")), Keep("rnk=40", Say("ok")))))),
    If(Fact("getMap().isCPQWinnerMap()"),
      If(Fact("getParty() = null"), Do(<<Warp(980030000)>>, Leave),
      If(Fact("getFestivalPoints() >= 300"), Keep("rnk=1", Say("ok")),
      If(Fact("getFestivalPoints() >= 100"), Keep("rnk=2", Say("ok")),
      If(Fact("getFestivalPoints() >= 50"), Keep("rnk=3", Say("ok")), Keep("rnk=4", Say("ok")))))),
    Idle))),
    When("rnk=-1",
        If(AnyOf({InMap(980030010), Fact("getMap().isCPQLoserMap()"),
                  Fact("getMap().isCPQWinnerMap()")}),
          Do(<<Warp(980030000)>>, Leave),
        Idle))
    \cup When("rnk=10",
        If(InMap(980030010), Do(<<Warp(980030000)>>, Leave),
        If(Fact("getMap().isCPQLoserMap()"), Do(<<Warp(980030000), Exp(35000)>>, Leave),
        If(Fact("getMap().isCPQWinnerMap()"), Do(<<Warp(980030000)>>, Leave), Idle))))
    \cup When("rnk=20",
        If(InMap(980030010), Do(<<Warp(980030000)>>, Leave),
        If(Fact("getMap().isCPQLoserMap()"), Do(<<Warp(980030000), Exp(25000)>>, Leave),
        If(Fact("getMap().isCPQWinnerMap()"), Do(<<Warp(980030000)>>, Leave), Idle))))
    \cup When("rnk=30",
        If(InMap(980030010), Do(<<Warp(980030000)>>, Leave),
        If(Fact("getMap().isCPQLoserMap()"), Do(<<Warp(980030000), Exp(12500)>>, Leave),
        If(Fact("getMap().isCPQWinnerMap()"), Do(<<Warp(980030000)>>, Leave), Idle))))
    \cup When("rnk=40",
        If(InMap(980030010), Do(<<Warp(980030000)>>, Leave),
        If(Fact("getMap().isCPQLoserMap()"), Do(<<Warp(980030000), Exp(3500)>>, Leave),
        If(Fact("getMap().isCPQWinnerMap()"), Do(<<Warp(980030000)>>, Leave), Idle))))
    \cup When("rnk=1",
        If(AnyOf({InMap(980030010), Fact("getMap().isCPQLoserMap()")}),
          Do(<<Warp(980030000)>>, Leave),
        If(Fact("getMap().isCPQWinnerMap()"), Do(<<Warp(980030000), Exp(875000)>>, Leave), Idle)))
    \cup When("rnk=2",
        If(AnyOf({InMap(980030010), Fact("getMap().isCPQLoserMap()")}),
          Do(<<Warp(980030000)>>, Leave),
        If(Fact("getMap().isCPQWinnerMap()"), Do(<<Warp(980030000), Exp(700000)>>, Leave), Idle)))
    \cup When("rnk=3",
        If(AnyOf({InMap(980030010), Fact("getMap().isCPQLoserMap()")}),
          Do(<<Warp(980030000)>>, Leave),
        If(Fact("getMap().isCPQWinnerMap()"), Do(<<Warp(980030000), Exp(555000)>>, Leave), Idle)))
    \cup When("rnk=4",
        If(AnyOf({InMap(980030010), Fact("getMap().isCPQLoserMap()")}),
          Do(<<Warp(980030000)>>, Leave),
        If(Fact("getMap().isCPQWinnerMap()"), Do(<<Warp(980030000), Exp(100000)>>, Leave), Idle)))>>)

n2042008 == Once(Do(<<Call("warpParty 980030000 4")>>, Leave))
n2042009 == Once(Do(<<Call("warpParty 980030000 4")>>, Leave))
n2043000 == Talk(BackOrLeave, <<Say("next"), Do(<<Warp(220080000)>>, Leave)>>)
n2050004 == Once(Do(<<Call("getStorage().sendStorage 2050004")>>, Leave))

n2050014 ==
  Once(If(Started(3421),
         If(Fact("((getQuestProgress(3421,0) >> (getNpc() -.."),
           If(Room(4031117, 1), Do(<<Give(4031117, 1), Call("setQuestProgress 3421 0")>>, Leave),
           Leave),
         If(Fact("getQuestProgress(3421,0) = 63"),
           If(Has(4031117, 6), Leave,
           If(Room(4031117, 1), Do(<<Give(4031117, 1), Call("setQuestProgress 3421 0")>>, Leave),
           Leave)),
         Leave)),
       Leave))

n2050015 == n2050014
n2050016 == n2050014
n2050017 == n2050014
n2050018 == n2050014
n2050019 == n2050014
=============================================================================
