----------------------------- MODULE NpcScripts6 ----------------------------
(***************************************************************************)
(* Tables of the scripts under scripts/npc: the rest of Ossyria.           *)
(* n<id> is the conversation of a script, its start() and action().        *)
(***************************************************************************)
EXTENDS Dialogue

n2060005 ==
  Once(If(Completed(6002), Bye("ok"),
       If(Started(6002),
         If(AllOf({Has(4031507, 5), Has(4031508, 5)}), Bye("ok"),
         If(Fact("getEventManager('3rdJob_mount') = null"), Bye("ok"),
         If(Fact("getEventManager('3rdJob_mount').startInsta.."),
           Do(<<Call("getEventManager('3rdJob_mount').startInsta.."), TakeAll(4031507),
                TakeAll(4031508)>>, Leave),
         Do(<<Call("getEventManager('3rdJob_mount').startInsta..")>>, Bye("ok"))))),
       Bye("ok"))))

n2060008 == Once(Do(<<Call("getStorage().sendStorage 2060008")>>, Leave))

n2060009 == Opens(
        If(Started(3845), Do(<<Complete(3845), Exp(50000)>>, Bye("ok")),
        If(InMap(251000100),
          If(Has(4031242, 1), To(0, Keep("payment=false; atHerbTown=true", Say("simple"))),
          To(0, Keep("payment=true; atHerbTown=true", Say("simple")))),
        If(Has(4031242, 1), To(0, Keep("payment=false; atHerbTown=false", Say("simple"))),
        To(0, Keep("payment=true; atHerbTown=false", Say("simple")))))),
    Talk(Rule(0, -1, Gone, Gone), <<
    When("payment=false; atHerbTown=true",
        If(Chose(0), Do(<<Take(4031242, 1), Warp(230030200)>>, Leave),
        If(Mesos(10000), Do(<<Pay(10000), Warp(230000000)>>, Leave), Bye("ok"))))
    \cup When("payment=true; atHerbTown=true",
        If(Chose(0),
          If(Mesos(1000), Do(<<Pay(1000), Warp(230030200)>>, Leave),
          Do(<<Page("ok"), Close, Warp(230030200)>>, Idle)),
        If(Mesos(10000), Do(<<Pay(10000), Warp(230000000)>>, Leave), Bye("ok"))))
    \cup When("payment=false; atHerbTown=false",
        If(Chose(0), Do(<<Take(4031242, 1), Warp(230030200)>>, Leave),
        If(Mesos(10000), Do(<<Pay(10000), Warp(251000100)>>, Leave), Bye("ok"))))
    \cup When("payment=true; atHerbTown=false",
        If(Chose(0),
          If(Mesos(1000), Do(<<Pay(1000), Warp(230030200)>>, Leave),
          Do(<<Page("ok"), Close, Warp(230030200)>>, Idle)),
        If(Mesos(10000), Do(<<Pay(10000), Warp(251000100)>>, Leave), Bye("ok"))))>>))

n2060100 ==
  Once(If(AllOf({Started(6301), Has(4000175, 1)}),
         Do(<<Take(4000175, 1), Warp(923000000)>>, Leave),
       Bye("ok")))

n2070000 == Once(Do(<<Call("getStorage().sendStorage 2070000")>>, Leave))

n2071012 == Talk(BackOrLeave, <<
    If(Fact("getQuestProgress(23647,0) = 0"), If(Has(4031793, 1), Say("yesNo"), Bye("ok")), Leave),
    Do(<<Page("next"), Take(4031793, 1), Call("gainFame -5"),
         Call("setQuestProgress 23647 0 1")>>, Leave)>>)

n2080005 == Once(Do(<<Call("getStorage().sendStorage 2080005")>>, Leave))

n2081000 == But(Talk(BackOrLeave, <<
    Say("simple"), If(Chose(0), Say("simple"), Bye("next")), Say("number"),
    If(Chose(0), Bye("ok"), Say("yesNo")),
    If(AllOf({MesosFor("(selection * 30000)"), Room(4031346, 1)}),
      Do(<<Page("ok"), GiveThe("4031346,selection"), PayFor("(selection * 30000)")>>, Leave),
    Bye("ok"))>>),
    At(3, "decline", Bye("ok")))

n2081004 == Once(Bye("ok"))

n2081005 == Opens(
        If(AnyOf({Fact("getBuffSource(MapleBuffStat.MORPH) = 2210003"), Has(4001086, 1)}),
          To(0, Say("simple")),
        Bye("ok")),
    Talk(Rule(0, -1, Gone, Gone), <<
    If(Chose(1),
      If(AllOf({Mesos(100000), Room(2000005, 1)}),
        Do(<<Pay(100000), Give(2000005, 10)>>, Bye("ok")),
      Bye("ok")),
    If(Level(100), Do(<<Warp(240050000)>>, Leave), Bye("ok")))>>))

n2081009 == Talk(BackOrLeave, <<
    If(Started(6180), Say("yesNo"), Bye("ok")),
    Do(<<Warp(924000001), Page("ok"), Call("resetQuestProgress 6180 9300096")>>, Leave)>>)

n2081010 == Talk(BackOrLeave, <<Say("yesNo"), Do(<<Warp(240010400)>>, Leave)>>)
n2082000 == Once(Bye("ok"))

n2082001 == But(Talk(BackOrLeave, <<
    Say("yesNo"), If(Mesos(10000), Do(<<Pay(10000), Warp(200000131)>>, Leave), Bye("ok"))>>),
    At(0, "decline", Bye("ok")))

n2082002 == Opens(To(1, Say("yesNo")),
    Talk(BackOrLeave, <<Idle, Idle, Say("next"), Do(<<Warp(240000110)>>, Leave)>>))

n2082003 == But(Talk(BackOrLeave, <<
    Say("yesNo"), Do(<<Call("useItem 2210016"), Warp(200090500)>>, Leave)>>),
    At(0, "decline", Bye("ok")))

n2082004 == Once(Bye("ok"))
n2082014 == Once(Bye("ok"))

n2083000 == Talk(BackOrLeave, <<
    If(Has(4001086, 1), Say("yesNo"), Bye("ok")), Do(<<Warp(240050400)>>, Leave)>>)

n2083001 == Talk(BackOrLeave, <<
    If(InMap(240050000),
      If(Fact("getEventManager('HorntailPQ') = null"), Bye("ok"),
      If(Fact("isUsingOldPqNpcStyle()"),
        If(Fact("getParty() = null"), Bye("ok"),
        If(AllOf({Fact("isLeader()"), Fact("getEventManager('HorntailPQ').getEligibleP..")}),
          If(Fact("getEventManager('HorntailPQ').startInstanc.."),
            Do(<<Call("getEventManager('HorntailPQ').startInstanc..")>>, Leave),
          Do(<<Call("getEventManager('HorntailPQ').startInstanc..")>>, Bye("ok"))),
        Bye("ok"))),
      Say("simple"))),
    If(Fact("isEventLeader()"),
      If(InMap(240050100),
        If(AllOf({Has(4001087, 1), Has(4001088, 1), Has(4001089, 1), Has(4001090, 1),
                  Has(4001091, 1)}),
          Do(<<Take(4001087, 1), Take(4001088, 1), Take(4001089, 1), Take(4001090, 1),
               Take(4001091, 1), Call("getEventInstance().warpEventTeam 240050200")>>, Leave),
        Bye("ok")),
      If(AnyOf({InMap(240050300), InMap(240050310)}),
        If(AllOf({Has(4001092, 1), Has(4001093, 6)}),
          Do(<<Take(4001092, 1), Take(4001093, 6), Call("getEventInstance().clearPQ")>>, Leave),
        Bye("ok")),
      Leave)),
    Bye("ok"))),
    If(InMap(240050000),
      If(Chose(0),
        If(Fact("getParty() = null"), Bye("ok"),
        If(AllOf({Fact("isLeader()"), Fact("getEventManager('HorntailPQ').getEligibleP..")}),
          If(Fact("getEventManager('HorntailPQ').startInstanc.."),
            Do(<<Call("getEventManager('HorntailPQ').startInstanc..")>>, Leave),
          Do(<<Call("getEventManager('HorntailPQ').startInstanc..")>>, Bye("ok"))),
        Bye("ok"))),
      Bye("ok")),
    If(Fact("isEventLeader()"),
      If(InMap(240050100),
        If(AllOf({Has(4001087, 1), Has(4001088, 1), Has(4001089, 1), Has(4001090, 1),
                  Has(4001091, 1)}),
          Do(<<Take(4001087, 1), Take(4001088, 1), Take(4001089, 1), Take(4001090, 1),
               Take(4001091, 1), Call("getEventInstance().warpEventTeam 240050200")>>, Leave),
        Bye("ok")),
      If(AnyOf({InMap(240050300), InMap(240050310)}),
        If(AllOf({Has(4001092, 1), Has(4001093, 6)}),
          Do(<<Take(4001092, 1), Take(4001093, 6), Call("getEventInstance().clearPQ")>>, Leave),
        Bye("ok")),
      Leave)),
    Bye("ok")))>>)

n2083002 == Talk(BackOrLeave, <<
    Say("yesNo"),
    If(Fact("getMapId() >= 240050401"), Do(<<Warp(240050600)>>, Leave),
    Do(<<Warp(240040700)>>, Leave))>>)

n2083004 == Opens(
        If(AllOf({Fact("getLevel() < MapleExpeditionType.HORNTAIL.."),
                  Fact("getLevel() > MapleExpeditionType.HORNTAIL..")}),
          Bye("ok"),
        If(Fact("getExpedition(MapleExpeditionType.HORNTAIL.."), To(1, Say("simple")),
        If(Fact("getExpedition(MapleExpeditionType.HORNTAIL..4"),
          If(Fact("getExpedition(MapleExpeditionType.HORNTAIL..5"), Bye("ok"),
          To(2, Say("simple"))),
        If(Fact("getExpedition(MapleExpeditionType.HORNTAIL..6"),
          If(Fact("getExpedition(MapleExpeditionType.HORNTAIL..7"), Bye("ok"),
          Do(<<Call("getExpedition(MapleExpeditionType.HORNTAIL..2")>>, Bye("ok"))),
        If(Fact("getExpedition(MapleExpeditionType.HORNTAIL..5"),
          If(AllOf({Fact("getExpedition(MapleExpeditionType.HORNTAIL..7"),
                    Fact("getEventManager('HorntailBattle').getInsta..")}),
            Do(<<Call("getEventManager('HorntailBattle').getInsta..")>>, Leave),
          Bye("ok")),
        To(0, Idle)))))),
    Talk(Rule(0, -1, Gone, Gone), <<
    Idle,
    If(AllOf({Chose(1), Fact("getExpedition(MapleExpeditionType.HORNTAIL..")}),
      Do(<<Call("createExpedition MapleExpeditionType.HORNT..")>>, Bye("ok")),
    Bye("ok")),
    If(Chose(1),
      If(AnyOf({Fact("getExpedition(MapleExpeditionType.HORNTAIL.."),
                Fact("getExpedition(MapleExpeditionType.HORNTAIL..2")}),
        Bye("ok"),
      To(6, Say("simple"))),
    If(Chose(2),
      If(Fact("getExpedition(MapleExpeditionType.HORNTAIL..3"), Bye("ok"), To(4, Say("ok"))),
    Do(<<Call("endExpedition")>>, Bye("ok")))), Idle,
    If(Fact("getEventManager('HorntailBattle') = null"), Bye("ok"),
    If(Fact("getEventManager('HorntailBattle').startIns.."),
      Do(<<Call("getEventManager('HorntailBattle').setPrope.."),
           Call("getEventManager('HorntailBattle').setPrope..2"),
           Call("getEventManager('HorntailBattle').startIns..")>>, Leave),
    Do(<<Call("getEventManager('HorntailBattle').setPrope.."),
         Call("getEventManager('HorntailBattle').setPrope..2"),
         Call("getEventManager('HorntailBattle').startIns..")>>, Bye("ok")))), Idle,
    Do(<<Call("getExpedition(MapleExpeditionType.HORNTAIL..")>>, Bye("ok"))>>))

n2083005 ==
  Once(If(AllOf({Started(6280), Has(4031454, 1)}),
         Do(<<Page("ok"), Take(4031454, 1), Give(4031455, 1)>>, Leave),
       Leave))

n2090000 == Once(Do(<<Call("getStorage().sendStorage 2090000")>>, Leave))

n2090005 == But(Talk(BackOrLeave, <<
    If(InMap(251000000), Keep("slct=undefined; status=1", Say("yesNo")),
    Keep("slct=undefined; status=0", Say("simple"))),
    When("slct=undefined; status=1",
        If(MesosFor("undefined"),
          If(InMap(251000000), Do(<<Pay(10000), Warp(250000100)>>, Leave),
          Do(<<EarnThe("NaN"), Warp(250000100)>>, Leave)),
        Bye("next")))
    \cup When("slct=undefined; status=0", Keep("slct=selection; status=1", Say("yesNo")))
    \cup When("slct=selection; status=1",
        If(Chose(1), If(Mesos(10000), Do(<<Pay(10000), Warp(200000141)>>, Leave), Bye("next")),
        If(Chose(2), If(Mesos(10000), Do(<<Pay(10000), Warp(251000000)>>, Leave), Bye("next")),
        If(MesosFor("cost[selection]"),
          If(InMap(251000000), Do(<<Pay(10000), Warp(250000100)>>, Leave),
          Do(<<PayFor("cost[selection]"), Warp(250000100)>>, Leave)),
        Bye("next")))))>>),
    At(0, "decline",
      When("slct=undefined; status=1", Bye("next"))
      \cup When("slct=selection; status=1", Bye("next"))
      \cup When("slct=undefined; status=0", Leave)))

n2090100 == Talk(BackOrLeave, <<
    Say("simple"), If(Chose(1), Keep("beauty=1", Say("style")), Keep("beauty=2", Say("style"))),
    When("beauty=1",
        If(Has(5150025, 1), Do(<<Close, Take(5150025, 1), Call("setHair")>>, Say("ok")),
        If(Has(5420006, 1), Do(<<Close, Call("setHair")>>, Say("ok")), Bye("ok"))))
    \cup When("beauty=2",
        If(Has(5151020, 1), Do(<<Close, Take(5151020, 1), Call("setHair")>>, Say("ok")),
        Bye("ok")))>>)

n2090101 == Talk(BackOrLeave, <<
    Say("simple"),
    If(Chose(1),
      If(AnyOf({Fact("getGender() = 0"), Fact("getGender() = 1")}),
        Keep("beauty=1; hairnew=[style]", Say("yesNo")),
      Keep("beauty=1; hairnew=[]", Say("yesNo"))),
    Keep("beauty=2; hairnew=[]", Say("yesNo"))),
    When("beauty=1; hairnew=[style]",
        If(Has(5150024, 1), Do(<<Close, Take(5150024, 1), Call("setHair")>>, Say("ok")),
        Bye("ok")))
    \cup When("beauty=1; hairnew=[]",
        If(Has(5150024, 1), Do(<<Close, Take(5150024, 1), Call("setHair")>>, Say("ok")),
        Bye("ok")))
    \cup When("beauty=2; hairnew=[]",
        If(Has(5151019, 1), Do(<<Close, Take(5151019, 1), Call("setHair")>>, Say("ok")),
        Bye("ok")))>>)

n2090102 == Talk(BackOrLeave, <<
    Say("simple"), Say("style"),
    If(Has(5153006, 1), Do(<<Close, Take(5153006, 1), Call("setSkin")>>, Say("ok")), Bye("ok"))>>)

n2091006 == Opens(To(-2, Say("simple")),
    But(Talk(BackElseOnward, <<Say("prev")>>),
    At(-2, "decline", Idle)
    @@ At(-2, "yes",
         If(Chose(1), Keep("readNotice=1", Say("next")), Keep("readNotice=0", Say("yesNo"))))
    @@ At(-1, "decline", Bye("next"))
    @@ At(-1, "yes",
         When("readNotice=0", Do(<<Call("saveLocation MIRROR"), Warp(925020000)>>, Leave))
         \cup When("readNotice=1", Say("prev")))
    @@ At(0, "no", Keep("readNotice=1", Say("next")))))

n2091009 == Talk(BackOrLeave, <<
    Say("text"),
    If(Fact("getWarpMap(925040100).countPlayers() >= 1"), Bye("ok"),
    If(Fact("getText() = 'Actions speak louder than wor.."),
      If(AllOf({Started(21747), Fact("getQuestProgress(21747,9300351) = 0")}),
        Do(<<Warp(925040100)>>, Leave),
      Leave),
    Say("ok"))), Leave>>)

n2093003 == Once(Do(<<Call("getStorage().sendStorage 2093003")>>, Leave))

n2093004 == Talk(StayUnlessEnd, <<
    On("open", Say("yesNo")) \cup On("decline", Bye("next")),
    If(Mesos(10000), Do(<<Pay(10000), Warp(230000000)>>, Leave), Bye("ok"))>>)

n2094000 == Talk(BackOrLeave, <<
    If(Fact("getEventManager('PiratePQ') = null"), Bye("ok"),
    If(Fact("isUsingOldPqNpcStyle()"),
      If(Fact("getParty() = null"), Bye("ok"),
      If(AllOf({Fact("isLeader()"), Fact("getEventManager('PiratePQ').getEligiblePar..")}),
        If(Fact("getEventManager('PiratePQ').startInstance.."),
          Do(<<Call("getEventManager('PiratePQ').startInstance 1")>>, Leave),
        Do(<<Call("getEventManager('PiratePQ').startInstance 1")>>, Bye("ok"))),
      Bye("ok"))),
    Say("simple"))),
    If(Chose(0),
      If(Fact("getParty() = null"), Bye("ok"),
      If(AllOf({Fact("isLeader()"), Fact("getEventManager('PiratePQ').getEligiblePar..")}),
        If(Fact("getEventManager('PiratePQ').startInstance.."),
          Do(<<Call("getEventManager('PiratePQ').startInstance 1")>>, Leave),
        Do(<<Call("getEventManager('PiratePQ').startInstance 1")>>, Bye("ok"))),
      Bye("ok"))),
    If(Chose(1), Do(<<Call("toggleRecvPartySearchInvite")>>, Bye("ok")), Bye("ok")))>>)

n2094001 == Talk(BackOrLeave, <<
    If(InMap(925100500), If(Fact("isEventLeader()"), Keep("page=ok", Say("ok")), Bye("ok")),
    Keep("page=simple", Say("simple"))),
    When("page=ok",
        If(InMap(925100500), Do(<<Call("getEventInstance().clearPQ")>>, Leave),
        If(Has(1003267, 1), Bye("ok"),
        If(Has(1002573, 1),
          If(AllOf({Has(4001158, 20), Room(1003267, 1)}),
            Do(<<Take(1002573, 1), Take(4001158, 20), Give(1003267, 1)>>, Bye("ok")),
          Bye("ok")),
        If(Has(1002572, 1),
          If(AllOf({Has(4001158, 20), Room(1002573, 1)}),
            Do(<<Take(1002572, 1), Take(4001158, 20), Give(1002573, 1)>>, Bye("ok")),
          Bye("ok")),
        If(AllOf({Has(4001158, 20), Room(1002572, 1)}),
          Do(<<Take(4001158, 20), Give(1002572, 1)>>, Bye("ok")),
        Bye("ok")))))))
    \cup When("page=simple",
        If(InMap(925100500), Do(<<Call("getEventInstance().clearPQ")>>, Leave),
        If(Chose(0),
          If(Room(4001158, 1), Do(<<Give(4001158, 1), Warp(251010404)>>, Leave), Bye("ok")),
        If(Has(1003267, 1), Bye("ok"),
        If(Has(1002573, 1),
          If(AllOf({Has(4001158, 20), Room(1003267, 1)}),
            Do(<<Take(1002573, 1), Take(4001158, 20), Give(1003267, 1)>>, Bye("ok")),
          Bye("ok")),
        If(Has(1002572, 1),
          If(AllOf({Has(4001158, 20), Room(1002573, 1)}),
            Do(<<Take(1002572, 1), Take(4001158, 20), Give(1002573, 1)>>, Bye("ok")),
          Bye("ok")),
        If(AllOf({Has(4001158, 20), Room(1002572, 1)}),
          Do(<<Take(4001158, 20), Give(1002572, 1)>>, Bye("ok")),
        Bye("ok"))))))))>>)

n2095000 == Talk(BackOrLeave, <<
    If(InMap(925010400), Keep("page=yesNo", Say("yesNo")),
    If(Fact("getEventManager('DelliBattle') = null"), Bye("ok"),
    If(Fact("isUsingOldPqNpcStyle()"),
      If(Fact("getParty() = null"), Bye("ok"),
      If(AllOf({Fact("isLeader()"), Fact("getEventManager('DelliBattle').getEligible..")}),
        If(Fact("getEventManager('DelliBattle').startInstan.."),
          Do(<<Call("getEventManager('DelliBattle').startInstan..")>>, Leave),
        Do(<<Call("getEventManager('DelliBattle').startInstan..")>>, Bye("ok"))),
      Bye("ok"))),
    Keep("page=simple", Say("simple"))))),
    When("page=yesNo", If(InMap(925010400), Do(<<Warp(120000104)>>, Leave), Bye("ok")))
    \cup When("page=simple",
        If(InMap(925010400), Do(<<Warp(120000104)>>, Leave),
        If(Chose(0),
          If(Fact("getParty() = null"), Bye("ok"),
          If(AllOf({Fact("isLeader()"), Fact("getEventManager('DelliBattle').getEligible..")}),
            If(Fact("getEventManager('DelliBattle').startInstan.."),
              Do(<<Call("getEventManager('DelliBattle').startInstan..")>>, Leave),
            Do(<<Call("getEventManager('DelliBattle').startInstan..")>>, Bye("ok"))),
          Bye("ok"))),
        Bye("ok"))))>>)

n2096000 == Once(Bye("ok"))
n2100000 == Once(Do(<<Call("getStorage().sendStorage 2100000")>>, Leave))

n2100001 == But(Talk(BackOrLeave, <<
    Say("yesNo"), Say("simple"), Say("simple"),
    If(Chose(0), Keep("cost=270", Say("number")),
    If(Chose(1), Keep("cost=450", Say("number")),
    If(Chose(2), Keep("cost=4500", Say("number")), Keep("cost=undefined", Say("number"))))),
    When("cost=270",
        If(Fact("selection >= 1"), Keep("cost=270; qty=selection", Say("yesNo")),
        If(Fact("selection >= 0"), Keep("cost=270; qty=1", Say("yesNo")),
        Keep("cost=270; qty=-selection", Say("yesNo")))))
    \cup When("cost=450",
        If(Fact("selection >= 1"), Keep("cost=450; qty=selection", Say("yesNo")),
        If(Fact("selection >= 0"), Keep("cost=450; qty=1", Say("yesNo")),
        Keep("cost=450; qty=-selection", Say("yesNo")))))
    \cup When("cost=4500",
        If(Fact("selection >= 1"), Keep("cost=4500; qty=selection", Say("yesNo")),
        If(Fact("selection >= 0"), Keep("cost=4500; qty=1", Say("yesNo")),
        Keep("cost=4500; qty=-selection", Say("yesNo")))))
    \cup When("cost=undefined",
        If(Fact("selection >= 1"), Keep("cost=undefined; qty=selection", Say("yesNo")),
        If(Fact("selection >= 0"), Keep("cost=undefined; qty=1", Say("yesNo")),
        Keep("cost=undefined; qty=-selection", Say("yesNo"))))),
    When("cost=270; qty=selection",
        If(AllOf({RoomFor("4011000,selection"), MesosFor("(270 * selection)"),
                  HasThe("4010000,(10 * selection)")}),
          Do(<<TakeThe("4010000,(-10 * selection)"), PayFor("(-270 * selection)"),
               GiveThe("4011000,selection")>>, Bye("ok")),
        Bye("ok")))
    \cup When("cost=270; qty=1",
        If(AllOf({Room(4011000, 1), Mesos(270), Has(4010000, 10)}),
          Do(<<Take(4010000, 10), Pay(270), Give(4011000, 1)>>, Bye("ok")),
        Bye("ok")))
    \cup When("cost=270; qty=-selection",
        If(AllOf({RoomFor("4011000,-selection"), MesosFor("(270 * -selection)"),
                  HasThe("4010000,(10 * -selection)")}),
          Do(<<TakeThe("4010000,(-10 * -selection)"), PayFor("(-270 * -selection)"),
               TakeThe("4011000,selection")>>, Bye("ok")),
        Bye("ok")))
    \cup When("cost=450; qty=selection",
        If(AllOf({RoomFor("4021001,selection"), MesosFor("(450 * selection)"),
                  HasThe("4020001,(10 * selection)")}),
          Do(<<TakeThe("4020001,(-10 * selection)"), PayFor("(-450 * selection)"),
               GiveThe("4021001,selection")>>, Bye("ok")),
        Bye("ok")))
    \cup When("cost=450; qty=1",
        If(AllOf({Room(4021001, 1), Mesos(450), Has(4020001, 10)}),
          Do(<<Take(4020001, 10), Pay(450), Give(4021001, 1)>>, Bye("ok")),
        Bye("ok")))
    \cup When("cost=450; qty=-selection",
        If(AllOf({RoomFor("4021001,-selection"), MesosFor("(450 * -selection)"),
                  HasThe("4020001,(10 * -selection)")}),
          Do(<<TakeThe("4020001,(-10 * -selection)"), PayFor("(-450 * -selection)"),
               TakeThe("4021001,selection")>>, Bye("ok")),
        Bye("ok")))
    \cup When("cost=4500; qty=selection",
        If(AllOf({RoomFor("4005002,selection"), MesosFor("(4500 * selection)"),
                  HasThe("4004002,(10 * selection)")}),
          Do(<<TakeThe("4004002,(-10 * selection)"), PayFor("(-4500 * selection)"),
               GiveThe("4005002,selection")>>, Bye("ok")),
        Bye("ok")))
    \cup When("cost=4500; qty=1",
        If(AllOf({Room(4005002, 1), Mesos(4500), Has(4004002, 10)}),
          Do(<<Take(4004002, 10), Pay(4500), Give(4005002, 1)>>, Bye("ok")),
        Bye("ok")))
    \cup When("cost=4500; qty=-selection",
        If(AllOf({RoomFor("4005002,-selection"), MesosFor("(4500 * -selection)"),
                  HasThe("4004002,(10 * -selection)")}),
          Do(<<TakeThe("4004002,(-10 * -selection)"), PayFor("(-4500 * -selection)"),
               TakeThe("4005002,selection")>>, Bye("ok")),
        Bye("ok")))
    \cup When("cost=undefined; qty=selection",
        If(AllOf({RoomFor("undefined,selection"), MesosFor("(undefined * selection)"),
                  HasThe("undefined,(undefined * selection)")}),
          Do(<<GiveThe("undefined,(NaN * selection)"),
               GiveThe("undefined,selection")>>, Bye("ok")),
        Bye("ok")))
    \cup When("cost=undefined; qty=1",
        If(AllOf({RoomFor("undefined,1"), MesosFor("NaN"), HasThe("undefined,NaN")}),
          Do(<<GiveThe("undefined,NaN"), GiveThe("undefined")>>, Bye("ok")),
        Bye("ok")))
    \cup When("cost=undefined; qty=-selection",
        If(AllOf({RoomFor("undefined,-selection"), MesosFor("(undefined * -selection)"),
                  HasThe("undefined,(undefined * -selection)")}),
          Do(<<GiveThe("undefined,(NaN * -selection)"),
               TakeThe("undefined,selection")>>, Bye("ok")),
        Bye("ok")))>>),
    At(0, "decline", Bye("next"))
    @@ At(0, "end", Bye("next")))

n2100002 == Once(Do(<<Call("openShopNPC 2100002")>>, Leave))
n2100003 == Once(Do(<<Call("openShopNPC 2100003")>>, Leave))

n2100005 == Talk(BackOrLeave, <<
    Say("simple"),
    If(Chose(0),
      If(AnyOf({Fact("getGender() = 0"), Fact("getGender() = 1")}),
        Keep("beauty=1; hairnew=[style]", Say("yesNo")),
      Keep("beauty=1; hairnew=[]", Say("yesNo"))),
    Keep("beauty=2; hairnew=[]", Say("yesNo"))),
    When("beauty=1; hairnew=[style]",
        If(Has(5150026, 1), Do(<<Close, Take(5150026, 1), Call("setHair")>>, Say("ok")),
        Bye("next")))
    \cup When("beauty=1; hairnew=[]",
        If(Has(5150026, 1), Do(<<Close, Take(5150026, 1), Call("setHair")>>, Say("ok")),
        Bye("next")))
    \cup When("beauty=2; hairnew=[]",
        If(Has(5151021, 1), Do(<<Close, Take(5151021, 1), Call("setHair")>>, Say("ok")),
        Bye("next")))>>)

n2100006 == Talk(BackOrLeave, <<
    Say("simple"), If(Chose(0), Keep("beauty=1", Say("style")), Keep("beauty=2", Say("style"))),
    When("beauty=1",
        If(Has(5150027, 1), Do(<<Close, Take(5150027, 1), Call("setHair")>>, Say("ok")),
        Bye("next")))
    \cup When("beauty=2",
        If(Has(5151022, 1), Do(<<Close, Take(5151022, 1), Call("setHair")>>, Say("ok")),
        Bye("next")))>>)

n2100007 == Talk(BackOrLeave, <<
    Say("next"), Say("style"),
    If(Has(5153007, 1), Do(<<Close, Take(5153007, 1), Call("setSkin")>>, Say("ok")), Bye("next"))>>)

n2101000 == Once(Bye("ok"))
n2101001 == Once(Bye("next"))
n2101002 == Talk(BackOrLeave, <<Say("ok"), Leave>>)
n2101003 == Talk(BackOrLeave, <<Say("next"), Leave>>)
n2101004 == Once(Bye("next"))
n2101005 == Once(Bye("next"))
n2101006 == Once(Bye("next"))
n2101007 == Once(Bye("next"))
n2101008 == Once(Bye("next"))
n2101009 == Once(Bye("next"))
n2101010 == Once(Do(<<Warp(670010200)>>, Leave))
n2101011 == Once(Bye("next"))

n2101013 == But(Talk(BackOrLeave, <<
    Keep("status=0", Say("next")),
    When("status=0", Keep("status=1", Say("yesNo")))
    \cup When("status=1", Keep("status=2", Say("next")))
    \cup When("status=2",
        If(Mesos(10000), Do(<<Pay(10000), WarpTo("towns[floor((random * 5))]")>>, Idle),
        Bye("nextPrev")))>>),
    At(0, "decline", Bye("next")))

n2101015 == Talk(BackOrLeave, <<
    If(Fact("getAriantColiseum() = null"), Bye("ok"), Say("simple")),
    If(AllOf({Chose(0), Fact("getAriantPoints() >= 100")}),
      If(Fact("(getAriantPoints() + getAriantColiseum().g.."), Bye("ok"), Say("next")),
    Bye("ok")), Do(<<Call("gainAriantPoints -100"), Give(3010018, 1)>>, Leave)>>)

n2101016 == Talk(BackOrLeave, <<
    If(Fact("getAriantColiseum() = null"), Bye("ok"),
    If(AnyOf({Fact("getAriantColiseum().getAriantScore(getPlay.."), Fact("isGM()")}), Say("next"),
    Bye("ok"))),
    Do(<<Call("getAriantColiseum().clearAriantRewardTier"),
         Call("getAriantColiseum().clearAriantScore"), TakeAll(4031868),
         ExpOf("((92.7 * getExpRate()) * getAriantColiseum.."),
         Call("gainAriantPoints")>>, Bye("ok"))>>)

n2101018 == But(Talk(BackOrLeave, <<
    On("open",
        If(Level(19), If(Level(31), If(Fact("isGM()"), Say("next"), Bye("next")), Say("next")),
        If(Fact("isGM()"), Say("next"), Bye("next"))))
    \cup On("no", Say("next")), Say("nextPrev"), Say("simple"), Say("next"),
    Do(<<Call("saveLocation MIRROR"), Warp(980010000)>>, Leave)>>),
    At(3, "end", Do(<<Call("saveLocation MIRROR"), Warp(980010000)>>, Leave)))

n2102000 == But(Talk(BackOrLeave, <<
    Say("yesNo"), If(Mesos(10000), Do(<<Pay(10000), Warp(200000151)>>, Leave), Bye("ok"))>>),
    At(0, "decline", Bye("ok")))

n2102001 == Opens(To(1, Say("yesNo")),
    Talk(BackOrLeave, <<Idle, Idle, Say("next"), Do(<<Warp(260000100)>>, Leave)>>))

n2102002 == Once(Bye("ok"))

n2103001 ==
  Once(If(Started(3927), Do(<<Page("next"), Call("setQuestProgress 3927 1")>>, Leave), Leave))

n2103002 ==
  Once(If(Started(3923),
         If(Has(4031578, 1), Leave,
         If(Room(4031578, 1), Do(<<Page("ok"), Give(4031578, 1)>>, Leave), Bye("ok"))),
       Leave))

n2103003 ==
  Once(Do(<<
            Under({Started(3929), Fact("getQuestProgress(3929,0) = 1"), Has(4031580, 1)}, {},
              <<Take(4031580, 1), Call("setQuestProgress 3929 0 1")>>)>>, Leave))

n2103004 ==
  Once(Do(<<
            Under({Started(3929), Fact("getQuestProgress(3929,2) = 1"), Has(4031580, 1)}, {},
              <<Take(4031580, 1), Call("setQuestProgress 3929 2 1")>>)>>, Leave))

n2103005 ==
  Once(Do(<<
            Under({Started(3929), Fact("getQuestProgress(3929,1) = 1"), Has(4031580, 1)}, {},
              <<Take(4031580, 1), Call("setQuestProgress 3929 1 1")>>)>>, Leave))

n2103006 ==
  Once(Do(<<
            Under({Started(3929), Fact("getQuestProgress(3929,3) = 1"), Has(4031580, 1)}, {},
              <<Take(4031580, 1), Call("setQuestProgress 3929 3 1")>>)>>, Leave))

n2103009 ==
  Once(Do(<<
            Under({Started(3926), Fact("getQuestProgress(3926,0) = 1"), Has(4031579, 1)}, {},
              <<Take(4031579, 1), Call("setQuestProgress 3926 0 1")>>)>>, Leave))

n2103010 ==
  Once(Do(<<
            Under({Started(3926), Fact("getQuestProgress(3926,2) = 1"), Has(4031579, 1)}, {},
              <<Take(4031579, 1), Call("setQuestProgress 3926 2 1")>>)>>, Leave))

n2103011 ==
  Once(Do(<<
            Under({Started(3926), Fact("getQuestProgress(3926,1) = 1"), Has(4031579, 1)}, {},
              <<Take(4031579, 1), Call("setQuestProgress 3926 1 1")>>)>>, Leave))

n2103012 ==
  Once(Do(<<
            Under({Started(3926), Fact("getQuestProgress(3926,3) = 1"), Has(4031579, 1)}, {},
              <<Take(4031579, 1), Call("setQuestProgress 3926 3 1")>>)>>, Leave))

n2103013 == Once(Bye("ok"))
n2110000 == Once(Do(<<Call("getStorage().sendStorage 2110000")>>, Leave))
n2110002 == Once(Leave)

n2110005 == But(Talk(BackOrLeave, <<
    Say("yesNo"),
    If(Mesos(1500),
      If(InMap(260020000), Do(<<Warp(260020700), Pay(1500)>>, Leave),
      Do(<<Warp(260020000), Pay(1500)>>, Leave)),
    Bye("next"))>>),
    At(0, "decline", Bye("next")))

n2111000 ==
  Once(If(Started(3310), If(Has(4031709, 1), Bye("next"), Do(<<Warp(926120100)>>, Leave)),
       Bye("next")))

n2111001 == Once(Bye("ok"))

n2111003 ==
  Once(If(Started(3335), If(Has(4031695, 1), Bye("ok"), Do(<<Warp(926120300)>>, Leave)),
       Bye("ok")))

n2111004 == Once(Bye("ok"))
n2111005 == Once(Bye("ok"))

n2111006 ==
  Once(If(AnyOf({Started(3320), Completed(3320)}), Do(<<Warp(926120200)>>, Leave), Bye("ok")))

n2111007 == Once(Bye("ok"))
n2111008 == Once(Bye("ok"))
n2111009 == Once(Bye("ok"))

n2111010 ==
  Once(If(Started(3309),
         If(Has(4031708, 1), Leave,
         If(Room(4031708, 1), Do(<<Give(4031708, 1)>>, Leave), Bye("ok"))),
       Leave))

n2111013 ==
  Once(If(Started(3311),
         Do(<<Call("setQuestProgress 3311 0 1"), Page("ok"),
              Given(Fact("getQuestProgress(3311,1) = 1"), <<Exp(60000), Complete(3311)>>)>>, Leave),
       Do(<<Given(Fact("getQuestProgress(3311,1) = 1"), <<Exp(60000), Complete(3311)>>)>>, Leave)))

n2111014 ==
  Once(If(Started(3311),
         Do(<<Call("setQuestProgress 3311 1 1"), Page("ok"),
              Given(Fact("getQuestProgress(3311,0) = 1"), <<Exp(60000), Complete(3311)>>)>>, Leave),
       If(Started(3322),
         If(Has(4031697, 1), Leave,
         If(Room(4031697, 1), Do(<<Give(4031697, 1)>>, Leave), Bye("next"))),
       Leave)))

n2111015 ==
  Once(If(Started(3314),
         If(AnyOf({Has(2022198, 1), Fact("getBuffSource(MapleBuffStat.INC_EFFECT_HP_..")}), Leave,
         If(Room(2022198, 1), Do(<<Give(2022198, 1)>>, Bye("ok")), Bye("ok"))),
       Leave))

n2111017 == Talk(BackOrLeave, <<
    If(Started(3339),
      If(Fact("getQuestProgress(3339,0) = 3"), Say("text"),
      If(Fact("getQuestProgress(3339,0) = 0"), Do(<<Call("setQuestProgress 3339 0 1")>>, Leave),
      If(Fact("getQuestProgress(3339,0) >= 3"), Do(<<Warp(261000001)>>, Leave),
      Do(<<Call("setQuestProgress 3339 0 0")>>, Leave)))),
    If(Completed(3339), Do(<<Warp(261000001)>>, Leave), Leave)),
    If(Fact("getText() = 'my love Phyllia'"),
      Do(<<Call("setQuestProgress 3339 0 4"), Warp(261000001)>>, Leave),
    Bye("ok"))>>)

n2111018 == Talk(BackOrLeave, <<
    If(Started(3339),
      If(Fact("getQuestProgress(3339,0) = 3"), Say("text"),
      If(Fact("getQuestProgress(3339,0) = 2"),
        Do(<<Call("setQuestProgress 3339 0 3")>>, Say("text")),
      If(Fact("getQuestProgress(3339,0) >= 3"), Do(<<Warp(261000001)>>, Leave),
      Do(<<Call("setQuestProgress 3339 0 0")>>, Leave)))),
    If(Completed(3339), Do(<<Warp(261000001)>>, Leave), Leave)),
    If(Fact("getText() = 'my love Phyllia'"),
      Do(<<Call("setQuestProgress 3339 0 4"), Warp(261000001)>>, Leave),
    Bye("ok"))>>)

n2111019 == Talk(BackOrLeave, <<
    If(Started(3339),
      If(Fact("getQuestProgress(3339,0) = 3"), Say("text"),
      If(Fact("getQuestProgress(3339,0) = 1"), Do(<<Call("setQuestProgress 3339 0 2")>>, Leave),
      If(Fact("getQuestProgress(3339,0) >= 3"), Do(<<Warp(261000001)>>, Leave),
      Do(<<Call("setQuestProgress 3339 0 0")>>, Leave)))),
    If(Completed(3339), Do(<<Warp(261000001)>>, Leave), Leave)),
    If(Fact("getText() = 'my love Phyllia'"),
      Do(<<Call("setQuestProgress 3339 0 4"), Warp(261000001)>>, Leave),
    Bye("ok"))>>)

n2111020 ==
  Once(If(Started(3345),
         If(Fact("getQuestProgress(3345,0) = 0"),
           Do(<<Call("setQuestProgress 3345 0 1")>>, Leave),
         If(Fact("getQuestProgress(3345,0) >= 4"), Leave,
         Do(<<Call("setQuestProgress 3345 0 0")>>, Leave))),
       Idle))

n2111021 ==
  Once(If(Started(3345),
         If(Fact("getQuestProgress(3345,0) = 1"),
           Do(<<Call("setQuestProgress 3345 0 2")>>, Leave),
         If(Fact("getQuestProgress(3345,0) >= 4"), Leave,
         Do(<<Call("setQuestProgress 3345 0 0")>>, Leave))),
       Idle))

n2111022 ==
  Once(If(Started(3345),
         If(Fact("getQuestProgress(3345,0) = 2"),
           Do(<<Call("setQuestProgress 3345 0 3")>>, Leave),
         If(Fact("getQuestProgress(3345,0) >= 4"), Leave,
         Do(<<Call("setQuestProgress 3345 0 0")>>, Leave))),
       Idle))

n2111023 ==
  Once(If(Started(3345),
         If(Fact("getQuestProgress(3345,0) = 3"),
           If(AllOf({Has(4031739, 1), Has(4031740, 1), Has(4031741, 1)}),
             Do(<<Call("setQuestProgress 3345 0 4"), Take(4031739, 1), Take(4031740, 1),
                  Take(4031741, 1)>>, Bye("ok")),
           Do(<<Call("setQuestProgress 3345 0 0")>>, Leave)),
         If(Fact("getQuestProgress(3345,0) >= 4"), Leave,
         Do(<<Call("setQuestProgress 3345 0 0")>>, Leave))),
       Idle))

n2111025 == Once(Bye("next"))
n2111026 == Once(Bye("next"))

n2112001 == Talk(BackOrLeave, <<
    Say("simple"), Say("next"),
    Do(<<Unless(Completed(7770), <<Complete(7770)>>), Warp(926100600)>>, Leave)>>)

n2112003 == Talk(BackOrLeave, <<
    If(InMap(261000021),
      If(Fact("getEventManager('MagatiaPQ_A') = null"), Bye("ok"),
      If(Fact("isUsingOldPqNpcStyle()"),
        If(Fact("getParty() = null"), Bye("ok"),
        If(AllOf({Fact("isLeader()"), Fact("getEventManager('MagatiaPQ_A').getEligible..")}),
          If(Fact("getEventManager('MagatiaPQ_A').startInstan.."),
            Do(<<Call("getEventManager('MagatiaPQ_A').startInstan..")>>, Leave),
          Do(<<Call("getEventManager('MagatiaPQ_A').startInstan..")>>, Bye("ok"))),
        Bye("ok"))),
      Keep("em=getEventManager('MagatiaPQ..", Say("simple")))),
    Keep("em=null", Say("yesNo"))),
    When("em=getEventManager('MagatiaPQ..",
        If(InMap(261000021),
          If(Chose(0),
            If(Fact("getParty() = null"), Bye("ok"),
            If(AllOf({Fact("isLeader()"), Fact("getEventManager('MagatiaPQ_A').getEligible..")}),
              If(Fact("getEventManager('MagatiaPQ_A').startInstan.."),
                Do(<<Call("getEventManager('MagatiaPQ_A').startInstan..")>>, Leave),
              Do(<<Call("getEventManager('MagatiaPQ_A').startInstan..")>>, Bye("ok"))),
            Bye("ok"))),
          If(Chose(1), Do(<<Call("toggleRecvPartySearchInvite")>>, Bye("ok")), Bye("ok"))),
        Do(<<Warp(926110700)>>, Leave)))
    \cup When("em=null", If(InMap(261000021), Bye("ok"), Do(<<Warp(926110700)>>, Leave)))>>)

n2112004 == Talk(BackOrLeave, <<
    If(InMap(261000011),
      If(Fact("getEventManager('MagatiaPQ_Z') = null"), Bye("ok"),
      If(Fact("isUsingOldPqNpcStyle()"),
        If(Fact("getParty() = null"), Bye("ok"),
        If(AllOf({Fact("isLeader()"), Fact("getEventManager('MagatiaPQ_Z').getEligible..")}),
          If(Fact("getEventManager('MagatiaPQ_Z').startInstan.."),
            Do(<<Call("getEventManager('MagatiaPQ_Z').startInstan..")>>, Leave),
          Do(<<Call("getEventManager('MagatiaPQ_Z').startInstan..")>>, Bye("ok"))),
        Bye("ok"))),
      Keep("em=getEventManager('MagatiaPQ..", Say("simple")))),
    Keep("em=null", Say("yesNo"))),
    When("em=getEventManager('MagatiaPQ..",
        If(InMap(261000011),
          If(Chose(0),
            If(Fact("getParty() = null"), Bye("ok"),
            If(AllOf({Fact("isLeader()"), Fact("getEventManager('MagatiaPQ_Z').getEligible..")}),
              If(Fact("getEventManager('MagatiaPQ_Z').startInstan.."),
                Do(<<Call("getEventManager('MagatiaPQ_Z').startInstan..")>>, Leave),
              Do(<<Call("getEventManager('MagatiaPQ_Z').startInstan..")>>, Bye("ok"))),
            Bye("ok"))),
          If(Chose(1), Do(<<Call("toggleRecvPartySearchInvite")>>, Bye("ok")), Bye("ok"))),
        Do(<<Warp(926100700)>>, Leave)))
    \cup When("em=null", If(InMap(261000011), Bye("ok"), Do(<<Warp(926100700)>>, Leave)))>>)

n2112005 == Talk(BackOrLeave, <<
    If(Fact("getEventInstance().isEventCleared()"),
      If(Fact("getEventInstance().getIntProperty('escortF.."), Keep("page=next", Say("next")),
      To(2, Say("next"))),
    If(AllOf({Fact("getEventInstance().getIntProperty('npcShoc.."), Has(4001130, 1)}),
      Do(<<Take(4001130, 1), Call("getEventInstance().setIntProperty npcShock..")>>, Bye("next")),
    If(Fact("getEventInstance().getIntProperty('statusS..3"),
      If(Fact("getMap().getReactorByName('jnr3_out3').get.."),
        Do(<<Page("next"), Call("getMap().getReactorByName('jnr3_out3').hit..")>>, Leave),
      Bye("next")),
    If(AllOf({Has(4001134, 1), Has(4001135, 1)}),
      If(Fact("isEventLeader()"),
        Do(<<Take(4001134, 1), Take(4001135, 1), Page("next"),
             Call("getEventInstance().giveEventPlayersStageRe..2"),
             Call("getEventInstance().setIntProperty statusSt.."),
             Call("getMap().killAllMonsters"),
             Call("getMap().getReactorByName('jnr3_out3').hit..")>>, Leave),
      Bye("ok")),
    Keep("page=yesNo", Say("yesNo")))))),
    If(Fact("getEventInstance().isEventCleared()"), Say("next"), Do(<<Warp(926110700)>>, Leave)),
    If(Fact("getEventInstance().isEventCleared()"),
      If(Room(4001160, 1),
        If(Fact("getEventInstance().getIntProperty('normalC.."),
          Do(<<Give(4001160, 1), Warp(926110600)>>, Leave),
        Do(<<Give(4001160, 1), Warp(926110500)>>, Leave)),
      Bye("ok")),
    Do(<<Warp(926110700)>>, Leave)),
    If(Fact("getEventInstance().isEventCleared()"), Do(<<Warp(926110600)>>, Leave),
    Do(<<Warp(926110700)>>, Leave))>>)

n2112006 == Talk(BackOrLeave, <<
    If(Fact("getEventInstance().isEventCleared()"),
      If(Fact("getEventInstance().getIntProperty('escortF.."), Keep("page=next", Say("next")),
      To(2, Say("next"))),
    If(AllOf({Fact("getEventInstance().getIntProperty('npcShoc.."), Has(4001131, 1)}),
      Do(<<Take(4001131, 1), Call("getEventInstance().setIntProperty npcShock..")>>, Bye("next")),
    If(Fact("getEventInstance().getIntProperty('statusS..3"),
      If(Fact("getMap().getReactorByName('rnj3_out3').get.."),
        Do(<<Page("next"), Call("getMap().getReactorByName('rnj3_out3').hit..")>>, Leave),
      Bye("next")),
    If(AllOf({Has(4001134, 1), Has(4001135, 1)}),
      If(Fact("isEventLeader()"),
        Do(<<Take(4001134, 1), Take(4001135, 1), Page("next"),
             Call("getEventInstance().giveEventPlayersStageRe..2"),
             Call("getEventInstance().setIntProperty statusSt.."),
             Call("getMap().killAllMonsters"),
             Call("getMap().getReactorByName('rnj3_out3').hit..")>>, Leave),
      Bye("ok")),
    Keep("page=yesNo", Say("yesNo")))))),
    If(Fact("getEventInstance().isEventCleared()"), Say("next"), Do(<<Warp(926100700)>>, Leave)),
    If(Fact("getEventInstance().isEventCleared()"),
      If(Room(4001159, 1),
        If(Fact("getEventInstance().getIntProperty('normalC.."),
          Do(<<Give(4001159, 1), Warp(926100600)>>, Leave),
        Do(<<Give(4001159, 1), Warp(926100500)>>, Leave)),
      Bye("ok")),
    Do(<<Warp(926100700)>>, Leave)),
    If(Fact("getEventInstance().isEventCleared()"), Do(<<Warp(926100600)>>, Leave),
    Do(<<Warp(926100700)>>, Leave))>>)

n2112011 == Talk(BackOrLeave, <<
    Say("simple"), Say("next"),
    Do(<<Unless(Completed(7770), <<Complete(7770)>>), Warp(926110600)>>, Leave)>>)

n2112016 ==
  Once(If(Started(3367),
         If(Fact("getQuestProgress(3367,30) = 30"), Bye("next"),
         If(Fact("getQuestProgress(3367,(getNpcObjectId() %.."),
           If(Fact("(getNpcObjectId() % 30) >= 20"),
             Do(<<Page("next"), Call("setQuestProgress 3367 1"),
                  Call("setQuestProgress 3367 30")>>, Leave),
           If(Room(4031797, 1),
             Do(<<Give(4031797, 1), Call("setQuestProgress 3367 31"), Page("next"),
                  Call("setQuestProgress 3367 1"), Call("setQuestProgress 3367 30")>>, Leave),
           Bye("next"))),
         Leave)),
       Leave))

n2112018 == Talk(BackOrLeave, <<
    Say("next"),
    If(Fact("getEventInstance().giveEventReward(getPlay.."),
      If(Fact("getEventInstance().getIntProperty('isAlcad.."),
        Do(<<Call("getEventInstance().giveEventReward"), Warp(261000011)>>, Leave),
      Do(<<Call("getEventInstance().giveEventReward"), Warp(261000021)>>, Leave)),
    Do(<<Call("getEventInstance().giveEventReward")>>, Bye("ok")))>>)

n2120003 == Once(Bye("ok"))
n2131000 == Once(Bye("ok"))

n2131001 == Talk(BackOrLeave, <<
    Say("simple"), If(Has(4000439, 100), Say("number"), Bye("next")),
    If(AllOf({Fact("selection >= 1"), Fact("selection <= (itemQuantity(4000439) / 100)")}),
      If(RoomFor("4310000,selection"),
        Do(<<GiveThe("4310000,selection"), TakeThe("4000439,(selection * 100)")>>, Bye("ok")),
      Bye("ok")),
    Leave)>>)

n2131002 == Once(Bye("ok"))

n2131003 == Talk(BackOrLeave, <<
    Say("simple"), If(Has(4000437, 100), Say("number"), Bye("next")),
    If(AllOf({Fact("selection >= 1"), Fact("selection <= (itemQuantity(4000437) / 100)")}),
      If(RoomFor("4310000,selection"),
        Do(<<GiveThe("4310000,selection"), TakeThe("4000437,(selection * 100)")>>, Bye("ok")),
      Bye("ok")),
    Leave)>>)

n2131004 == Once(Bye("next"))

n2131005 == Talk(BackOrLeave, <<
    Say("simple"), If(Has(4000436, 100), Say("number"), Bye("next")),
    If(AllOf({Fact("selection >= 1"), Fact("selection <= (itemQuantity(4000436) / 100)")}),
      If(RoomFor("4310000,selection"),
        Do(<<GiveThe("4310000,selection"), TakeThe("4000436,(selection * 100)")>>, Bye("ok")),
      Bye("ok")),
    Leave)>>)

n2131006 == Talk(BackOrLeave, <<
    Say("simple"), If(Has(4000440, 100), Say("number"), Bye("next")),
    If(AllOf({Fact("selection >= 1"), Fact("selection <= (itemQuantity(4000440) / 100)")}),
      If(RoomFor("4310000,selection"),
        Do(<<GiveThe("4310000,selection"), TakeThe("4000440,(selection * 100)")>>, Bye("ok")),
      Bye("ok")),
    Leave)>>)

n2131007 == Talk(BackOrLeave, <<
    Say("simple"), If(Has(4000438, 100), Say("number"), Bye("next")),
    If(AllOf({Fact("selection >= 1"), Fact("selection <= (itemQuantity(4000438) / 100)")}),
      If(RoomFor("4310000,selection"),
        Do(<<GiveThe("4310000,selection"), TakeThe("4000438,(selection * 100)")>>, Bye("ok")),
      Bye("ok")),
    Leave)>>)

n2132000 == Once(Bye("ok"))
n2132001 == Once(Bye("next"))
n2132002 == Once(Bye("next"))
n2132003 == Once(Bye("next"))

n2133000 == But(Talk(BackOrLeave, <<
    If(Fact("getEventManager('EllinPQ') = null"), Bye("ok"),
    If(Fact("isUsingOldPqNpcStyle()"),
      If(Fact("getParty() = null"), Bye("ok"),
      If(AllOf({Fact("isLeader()"), Fact("getEventManager('EllinPQ').getEligiblePart..")}),
        If(Fact("getEventManager('EllinPQ').startInstance(g.."),
          Do(<<Call("getEventManager('EllinPQ').startInstance 1")>>, Leave),
        Do(<<Call("getEventManager('EllinPQ').startInstance 1")>>, Bye("ok"))),
      Bye("ok"))),
    Say("simple"))),
    If(Chose(0),
      If(Fact("getParty() = null"), Bye("ok"),
      If(AllOf({Fact("isLeader()"), Fact("getEventManager('EllinPQ').getEligiblePart..")}),
        If(Fact("getEventManager('EllinPQ').startInstance(g.."),
          Do(<<Call("getEventManager('EllinPQ').startInstance 1")>>, Leave),
        Do(<<Call("getEventManager('EllinPQ').startInstance 1")>>, Bye("ok"))),
      Bye("ok"))),
    If(Chose(1), Do(<<Call("toggleRecvPartySearchInvite")>>, Bye("ok")),
    If(Chose(2), Bye("ok"), Say("simple")))),
    If(Chose(0),
      If(Has(1032060, 1), Bye("ok"),
      If(Has(4001198, 15), Do(<<Give(1032060, 1), Take(4001198, 15)>>, Leave), Bye("ok"))),
    If(Has(1032060, 1),
      If(Has(1032061, 1), Bye("ok"),
      If(Has(4001198, 15), Do(<<Take(1032060, 1), Give(1032061, 1), Take(4001198, 15)>>, Leave),
      Bye("ok"))),
    Bye("ok")))>>),
    At(1, "decline",
      If(Fact("getEventManager('EllinPQ') = null"), Bye("ok"),
      If(Fact("isUsingOldPqNpcStyle()"),
        If(Fact("getParty() = null"), Bye("ok"),
        If(AllOf({Fact("isLeader()"), Fact("getEventManager('EllinPQ').getEligiblePart..")}),
          If(Fact("getEventManager('EllinPQ').startInstance(g.."),
            Do(<<Call("getEventManager('EllinPQ').startInstance 1")>>, Leave),
          Do(<<Call("getEventManager('EllinPQ').startInstance 1")>>, Bye("ok"))),
        Bye("ok"))),
      To(0, Say("simple"))))))

n2133001 == Talk(BackOrLeave, <<
    If(InMap(930000000), Keep("page=next", Say("next")),
    If(AnyOf({InMap(930000100), InMap(930000200)}), Keep("page=yesNo", Say("yesNo")),
    If(InMap(930000300),
      If(Fact("getEventInstance().getIntProperty('statusS..4"),
        Do(<<
             Call("getEventInstance().setIntProperty statusSt..")>>, Keep("page=next", Say("next"))),
      Keep("page=next", Say("next"))),
    If(InMap(930000400),
      If(Has(4001169, 20), If(Fact("isEventLeader()"), Keep("page=next", Say("next")), Bye("ok")),
      If(Fact("getEventInstance().gridCheck(getPlayer())#..2"),
        If(Fact("getMap().countMonsters() >= 1"),
          If(Has(2270004, 1),
            Do(<<Call("getEventInstance().gridCheck")>>, Keep("page=yesNo", Say("yesNo"))),
          If(Room(2270004, 10),
            Do(<<Call("getEventInstance().gridCheck"), Give(2270004, 10)>>, Bye("ok")),
          Do(<<Call("getEventInstance().gridCheck")>>, Bye("ok")))),
        Do(<<Call("getEventInstance().gridCheck")>>, Keep("page=yesNo", Say("yesNo")))),
      Do(<<Call("getEventInstance().gridCheck"), Page("next"),
           Call("getEventInstance().gridInsert 1")>>, To(-1, Idle)))),
    Keep("page=yesNo", Say("yesNo")))))),
    If(InMap(930000000), Leave,
    If(InMap(930000300), Do(<<Call("getEventInstance().warpEventTeam 930000400")>>, Leave),
    If(AllOf({InMap(930000400), Has(4001169, 20), Fact("isEventLeader()")}),
      Do(<<Take(4001169, 20), Call("getEventInstance().warpEventTeam 930000500")>>, Leave),
    Do(<<Warp(930000800)>>, Leave))))>>)

n2133002 == Talk(BackOrLeave, <<
    Say("yesNo"),
    Do(<<TakeAll(4001163), TakeAll(4001169), TakeAll(2270004), Warp(930000800)>>, Leave)>>)

n2133004 == Talk(BackOrLeave, <<
    If(AllOf({Has(4001163, 1), Fact("isEventLeader()")}), Keep("page=next", Say("next")),
    Keep("page=yesNo", Say("yesNo"))),
    If(Has(4001163, 1), Do(<<Call("getEventInstance().warpEventTeam 930000600")>>, Leave),
    Do(<<Warp(930000800)>>, Leave))>>)

n2141000 == Talk(BackOrLeave, <<Say("accept"), Fail>>)

n2141001 == Opens(
        If(AllOf({Fact("getLevel() < MapleExpeditionType.PINKBEAN.."),
                  Fact("getLevel() > MapleExpeditionType.PINKBEAN..")}),
          Bye("ok"),
        If(Fact("getExpedition(MapleExpeditionType.PINKBEAN.."), To(1, Say("simple")),
        If(Fact("getExpedition(MapleExpeditionType.PINKBEAN..4"),
          If(Fact("getExpedition(MapleExpeditionType.PINKBEAN..5"), Bye("ok"),
          To(2, Say("simple"))),
        If(Fact("getExpedition(MapleExpeditionType.PINKBEAN..6"),
          If(Fact("getExpedition(MapleExpeditionType.PINKBEAN..7"), Bye("ok"),
          Do(<<Call("getExpedition(MapleExpeditionType.PINKBEAN..2")>>, Bye("ok"))),
        If(Fact("getExpedition(MapleExpeditionType.PINKBEAN..5"),
          If(AllOf({Fact("getExpedition(MapleExpeditionType.PINKBEAN..7"),
                    Fact("getEventManager('PinkBeanBattle').getInsta..")}),
            Do(<<Call("getEventManager('PinkBeanBattle').getInsta..")>>, Leave),
          Bye("ok")),
        To(0, Idle)))))),
    Talk(Rule(0, -1, Gone, Gone), <<
    Idle,
    If(AllOf({Chose(1), Fact("getExpedition(MapleExpeditionType.PINKBEAN..")}),
      Do(<<Call("createExpedition MapleExpeditionType.PINKB..")>>, Bye("ok")),
    Bye("ok")),
    If(Chose(1),
      If(AnyOf({Fact("getExpedition(MapleExpeditionType.PINKBEAN.."),
                Fact("getExpedition(MapleExpeditionType.PINKBEAN..2")}),
        Bye("ok"),
      To(6, Say("simple"))),
    If(Chose(2),
      If(Fact("getExpedition(MapleExpeditionType.PINKBEAN..3"), Bye("ok"), To(4, Say("ok"))),
    Do(<<Call("endExpedition")>>, Bye("ok")))), Idle,
    If(Fact("getEventManager('PinkBeanBattle') = null"), Bye("ok"),
    If(Fact("getEventManager('PinkBeanBattle').startIns.."),
      Do(<<Call("getEventManager('PinkBeanBattle').setPrope.."),
           Call("getEventManager('PinkBeanBattle').setPrope..2"),
           Call("getEventManager('PinkBeanBattle').startIns..")>>, Leave),
    Do(<<Call("getEventManager('PinkBeanBattle').setPrope.."),
         Call("getEventManager('PinkBeanBattle').setPrope..2"),
         Call("getEventManager('PinkBeanBattle').startIns..")>>, Bye("ok")))), Idle,
    Do(<<Call("getExpedition(MapleExpeditionType.PINKBEAN..")>>, Bye("ok"))>>))

n2141002 == Talk(BackOrLeave, <<
    Say("yesNo"),
    If(Fact("getEventInstance().isEventCleared()"),
      If(Fact("getEventInstance().giveEventReward(getPlay..2"),
        Do(<<Call("getEventInstance().giveEventReward 1"), Warp(270050000)>>, Leave),
      Do(<<Call("getEventInstance().giveEventReward 1")>>, Bye("ok"))),
    Do(<<Warp(270050000)>>, Leave))>>)

n2160000 == Once(Bye("ok"))
n2161001 == Once(Bye("ok"))
n2161003 == Once(Bye("ok"))

n2161007 ==
  Once(If(Fact("getMap().countMonsters() = 0"),
         Do(<<Warp(211060200), Call("getEventInstance().clearPQ"), Give(4032831, 1),
              Call("setQuestProgress 3164 1")>>, Leave),
       Bye("ok")))
=============================================================================
