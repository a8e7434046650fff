----------------------------- MODULE NpcScripts3 ----------------------------
(***************************************************************************)
(* Tables of the scripts under scripts/npc: Ereve, Rien, Mushroom Castle,  *)
(* and the events and hosts.                                               *)
(* n<id> is the conversation of a script, its start() and action().        *)
(***************************************************************************)
EXTENDS Dialogue

n1100000 == Once(Do(<<Call("getStorage().sendStorage 1100000")>>, Leave))

n1100003 == But(Talk(BackOrLeave, <<
    Say("yesNo"), If(Mesos(1000), Do(<<Pay(1000), Warp(101000400)>>, Leave), Bye("ok"))>>),
    At(0, "decline", Bye("ok")))

n1100004 == But(Talk(BackOrLeave, <<
    Say("yesNo"), If(Mesos(1000), Do(<<Pay(1000), Warp(200000161)>>, Leave), Bye("ok"))>>),
    At(0, "decline", Bye("ok")))

n1100005 == Once(Bye("ok"))
n1100006 == Once(Bye("ok"))

n1100007 == But(Talk(BackOrLeave, <<
    Say("yesNo"), If(Mesos(1000), Do(<<Pay(1000), Warp(130000210)>>, Leave), Bye("ok"))>>),
    At(0, "decline", Bye("ok")))

n1100008 == n1100007

n1101001 ==
  Once(If(AllOf({Fact("isCygnus()"), Fact("GameConstants.getJobBranch(getJob()) >= 3")}),
         Do(<<Call("useItem 2022458")>>, Bye("ok")),
       Bye("ok")))

n1101008 == Talk(BackOrLeave, <<
    Keep("status=0", Say("simple")),
    When("status=0",
        If(Chose(0), Keep("status=1", Say("next")),
        If(AnyOf({Chose(1), Chose(2), Chose(3), Chose(4), Chose(5), Chose(6), Chose(7), Chose(8),
                  Chose(9), Chose(10), Chose(11), Chose(12), Chose(13)}),
          Leave,
        Bye("ok"))))
    \cup When("status=1", Bye("nextPrev"))>>)

n1102001 == Talk(BackOrLeave, <<Say("yesNo"), Do(<<Warp(130020000)>>, Leave)>>)
n1102002 == Once(Bye("ok"))

n1102003 == Talk(BackOrLeave, <<
    If(Fact("parseInt((getJobId() / 100)) >= 11"),
      If(Fact("parseInt((getJobId() / 100)) >= 16"), Bye("ok"),
      If(Fact("canSpawnPlayerNpc(GameConstants.getHallOfF.."), Say("yesNo"), Bye("ok"))),
    Bye("ok")),
    If(Mesos(7000000),
      If(Fact("MaplePlayerNPC.spawnPlayerNPC(GameConstant.."),
        Do(<<Call("MaplePlayerNPC.spawnPlayerNPC"), Page("ok"), Pay(7000000)>>, Leave),
      Do(<<Call("MaplePlayerNPC.spawnPlayerNPC")>>, Bye("ok"))),
    Bye("ok"))>>)

n1103000 == Once(Bye("ok"))

n1103005 == But(Talk(BackOrLeave, <<Say("accept"), Do(<<Warp(130000000)>>, Leave)>>),
    At(0, "decline", Do(<<WarpTo("getSavedLocation('CYGNUSINTRO')")>>, Leave))
    @@ At(0, "end", Do(<<WarpTo("getSavedLocation('CYGNUSINTRO')")>>, Leave)))

n1104000 == Talk(BackOrLeave, <<
    Say("next"),
    Do(<<Call("getEventManager('Puppeteer').setProperty p.."),
         Call("getEventManager('Puppeteer').startInstance")>>, Leave)>>)

n1104002 == Talk(StayUnlessEnd, <<
    On("open", If(Started(20407), Say("accept"), Bye("ok")))
    \cup On("decline",
        Do(<<Call("getMap().spawnMonsterOnGroundBelow"),
             Call("getMap().destroyNPC 1104002")>>, Leave)), Bye("ok")>>)

n1104100 == Talk(BackOrLeave, <<
    If(Fact("floor((getJobId() / 100)) = 11"), Say("ok"), Bye("ok")),
    If(Fact("getMap().getMonsterById(9001009) = null"),
      Do(<<Call("getMap().spawnMonsterOnGroundBelow"),
           Call("getMap().destroyNPC 1104100")>>, Leave),
    Do(<<Call("getMap().destroyNPC 1104100")>>, Leave))>>)

n1104101 == Talk(BackOrLeave, <<
    If(Fact("floor((getJobId() / 100)) = 12"), Say("ok"), Bye("ok")),
    If(Fact("getMap().getMonsterById(9001009) = null"),
      Do(<<Call("getMap().spawnMonsterOnGroundBelow"),
           Call("getMap().destroyNPC 1104101")>>, Leave),
    Do(<<Call("getMap().destroyNPC 1104101")>>, Leave))>>)

n1104102 == Talk(BackOrLeave, <<
    If(Fact("floor((getJobId() / 100)) = 13"), Say("ok"), Bye("ok")),
    If(Fact("getMap().getMonsterById(9001009) = null"),
      Do(<<Call("getMap().spawnMonsterOnGroundBelow"),
           Call("getMap().destroyNPC 1104102")>>, Leave),
    Do(<<Call("getMap().destroyNPC 1104102")>>, Leave))>>)

n1104103 == Talk(BackOrLeave, <<
    If(Fact("floor((getJobId() / 100)) = 14"), Say("ok"), Bye("ok")),
    If(Fact("getMap().getMonsterById(9001009) = null"),
      Do(<<Call("getMap().spawnMonsterOnGroundBelow"),
           Call("getMap().destroyNPC 1104103")>>, Leave),
    Do(<<Call("getMap().destroyNPC 1104103")>>, Leave))>>)

n1104104 == Talk(BackOrLeave, <<
    If(Fact("floor((getJobId() / 100)) = 15"), Say("ok"), Bye("ok")),
    If(Fact("getMap().getMonsterById(9001009) = null"),
      Do(<<Call("getMap().spawnMonsterOnGroundBelow"),
           Call("getMap().destroyNPC 1104104")>>, Leave),
    Do(<<Call("getMap().destroyNPC 1104104")>>, Leave))>>)

n1104200 == Talk(BackOrLeave, <<
    Say("next"), Say("yesNo"),
    If(Fact("getWarpMap(913030000).countPlayers() = 0"), Do(<<Warp(913030000)>>, Leave),
    Bye("ok"))>>)

n1104201 ==
  Once(If(Completed(20407), Bye("ok"),
       If(Started(20407),
         If(AllOf({Fact("getQuestProgress(20407,9001010) = 0"),
                   Fact("getMap().countMonster(9001010) = 0"),
                   Fact("getMap().getNPCById(1104002) = null")}),
           Do(<<Page("ok"), Call("spawnNpc 1104002")>>, Leave),
         Bye("ok")),
       If(AllOf({Fact("getMap().countMonster(9001010) = 0"),
                 Fact("getMap().getNPCById(1104002) = null")}),
         Do(<<Page("ok"), Call("spawnNpc 1104002")>>, Leave),
       Bye("ok")))))

n1104202 == Once(Bye("ok"))
n1104203 == Once(Bye("ok"))
n1104204 == Once(Bye("ok"))
n1104205 == Once(Bye("ok"))
n1104206 == Once(Bye("ok"))
n1104207 == Once(Bye("ok"))
n1200000 == Once(Do(<<Call("getStorage().sendStorage 1200000")>>, Leave))

n1200003 == But(Talk(BackOrLeave, <<
    Say("yesNo"), If(Mesos(1000), Do(<<Pay(1000), Warp(104000000)>>, Leave), Bye("ok"))>>),
    At(0, "decline", Bye("ok")))

n1200004 == But(Talk(BackOrLeave, <<
    Say("yesNo"), If(Mesos(1000), Do(<<Pay(1000), Warp(140020300)>>, Leave), Bye("ok"))>>),
    At(0, "decline", Bye("ok")))

n1200005 == Once(Bye("ok"))
n1200006 == Once(Bye("ok"))

n1202009 ==
  Once(If(Fact("haveItemWithId(1902016,true)"), Do(<<Warp(140010210)>>, Leave), Bye("ok")))

n1202010 == Talk(BackOrLeave, <<
    If(AllOf({Fact("parseInt((getJobId() / 100)) = 21"),
              Fact("canSpawnPlayerNpc(GameConstants.getHallOfF..")}),
      Say("yesNo"),
    Bye("ok")),
    If(Mesos(7000000),
      If(Fact("MaplePlayerNPC.spawnPlayerNPC(GameConstant.."),
        Do(<<Call("MaplePlayerNPC.spawnPlayerNPC"), Page("ok"), Pay(7000000)>>, Leave),
      Do(<<Call("MaplePlayerNPC.spawnPlayerNPC")>>, Bye("ok"))),
    Bye("ok"))>>)

n1204001 == Talk(BackOrLeave, <<
    Say("next"), Say("nextPrev"), Do(<<Complete(21719), Warp(105040200)>>, Leave)>>)

n1204005 == Talk(BackOrLeave, <<
    If(Fact("getMap().countMonsters() >= 1"), Bye("ok"), Say("next")),
    Do(<<Warp(104000004), Call("openNpc 1002104")>>, Idle)>>)

n1209000 == Talk(Rule(2, -1, Gone, Gone), <<
    Idle, Say("next"), Idle, Do(<<Call("updateQuest 21002 1")>>, Leave)>>)

n1209001 == Once(Bye("ok"))
n1209002 == Once(Bye("ok"))
n1209003 == Once(Bye("ok"))
n1209004 == Once(Bye("ok"))
n1209005 == Once(Bye("ok"))
n1300001 == Once(Bye("ok"))
n1300006 == Once(Bye("ok"))
n1300012 == Once(Leave)

n1300013 == Talk(BackOrLeave, <<
    If(InMap(106021402), If(Completed(2331), Say("simple"), Leave),
    If(Started(2330),
      If(Fact("((getQuestProgress(2330,3300005) + getQues.."), Leave, Say("simple")),
    Leave)),
    If(InMap(106021402),
      If(Completed(2331),
        If(Chose(0),
          Do(<<Call("getEventManager('KingPepeAndYetis').setPro.."),
               Call("getEventManager('KingPepeAndYetis').startI..")>>, Leave),
        If(Fact("getParty() = null"),
          If(Fact("getEventManager('MK_PrimeMinister2').start.."),
            Do(<<Call("getEventManager('MK_PrimeMinister2').start..")>>, Leave),
          Do(<<Call("getEventManager('MK_PrimeMinister2').start..")>>, Bye("ok"))),
        If(Fact("getEventManager('MK_PrimeMinister2').start..2"),
          Do(<<Call("getEventManager('MK_PrimeMinister2').start..")>>, Leave),
        Do(<<Call("getEventManager('MK_PrimeMinister2').start..")>>, Bye("ok"))))),
      Leave),
    If(Started(2330),
      If(Fact("((getQuestProgress(2330,3300005) + getQues.."), Leave,
      If(Chose(1),
        Do(<<Call("getEventManager('KingPepeAndYetis').setPro.."),
             Call("getEventManager('KingPepeAndYetis').startI..")>>, Leave),
      Idle)),
    Leave))>>)

n1300014 == Once(Leave)

n9000000 == Talk(BackOrLeave, <<
    Say("next"), Say("simple"),
    If(Chose(0), Bye("next"), If(Chose(1), Say("simple"), Bye("next"))), Bye("next")>>)

n9000002 == Talk(BackOrLeave, <<
    Say("simple"),
    If(Chose(0),
      If(Has(1142097, 1),
        If(AllOf({Room(1302000, 1), Room(2000000, 1), Room(3010001, 1), Room(4000000, 1)}),
          Do(<<Take(1142097, 1), Call("giveEventDrop")>>, Leave),
        Bye("ok")),
      Leave),
    If(Chose(1),
      If(Has(1142098, 1),
        If(AllOf({Room(1302000, 1), Room(2000000, 1), Room(3010001, 1), Room(4000000, 1)}),
          Do(<<Take(1142098, 1), Call("giveEventDrop")>>, Leave),
        Bye("ok")),
      Leave),
    If(Has(1142099, 1),
      If(AllOf({Room(1302000, 1), Room(2000000, 1), Room(3010001, 1), Room(4000000, 1)}),
        Do(<<Take(1142099, 1), Call("giveEventDrop")>>, Leave),
      Bye("ok")),
    Leave)))>>)

n9000004 == Talk(BackOrLeave, <<
    If(Fact("getEventInstance().getProperty('leaderlast.."), To(9, Say("ok")),
    If(Fact("getParty() = null"),
      If(Fact("getEventInstance().getProperty('leaderlast..2"), Do(<<Page("ok")>>, Bye("yesNo")),
      Do(<<Warp(109020001)>>, Leave)),
    If(Fact("isLeader()"),
      If(Fact("getEventInstance().getProperty('leaderlast..2"), Say("yesNo"), Idle),
    If(Fact("getEventInstance().getProperty('leaderlast..2"), Do(<<Page("ok")>>, Bye("yesNo")),
    Do(<<Warp(109020001)>>, Leave))))), Fail, Idle, Idle, Idle, Idle, Idle, Idle, Idle, Idle,
    Do(<<Call("getEventInstance().setProperty leaderlastp..")>>, Leave)>>)

n9000007 == Once(Bye("ok"))
n9000008 == Once(Bye("ok"))
n9000009 == Once(Bye("ok"))

n9000010 == But(Talk(BackOrLeave, <<
    Say("next"), Do(<<WarpTo("getSavedLocation('EVENT')")>>, Leave)>>),
    At(0, "end", Do(<<Close, WarpTo("getSavedLocation('EVENT')")>>, Idle)))

n9000012 == Opens(To(-1, Say("simple")),
    Talk(BackOrLeave, <<
    If(Chose(0), Say("yesNo"),
    If(AnyOf({Fact("getMesos >= 1"), Room(1322005, 1)}), Do(<<Give(1322005, 1), Pay(1)>>, Leave),
    Bye("ok"))),
    Do(<<Given(Fact("getEvent() = null"), <<Call("getEvent().addLimit")>>),
         Warp(109050001)>>, Leave)>>))

n9000017 == Once(Bye("ok"))

n9000021 == Talk(BackOrLeave, <<
    Say("next"), Say("next"), Say("accept"), Say("ok"),
    Do(<<Call("saveLocation BOSSPQ"), Warp(970030000)>>, Leave)>>)

n9000030 == Opens(To(-1, Say("simple")), Talk(BackOrLeave, <<Bye("ok")>>))
n9000036 == Once(Bye("ok"))
n9000038 == Talk(BackOrLeave, <<Say("simple"), Say("prev")>>)

n9000040 == Talk(BackOrLeave, <<
    If(Fact("ServerConstants.USE_ENABLE_CUSTOM_NPC_SCRIPT"),
      If(Fact("isCygnus()"),
        If(Fact("ServerConstants.USE_STARTER_MERGE"), If(Mesos(50000), Say("next"), Bye("ok")),
        If(AllOf({Level(110), Fact("MakerProcessor.getMakerSkillLevel(getPlaye.."), Mesos(50000)}),
          Say("next"),
        Bye("ok"))),
      If(Fact("ServerConstants.USE_STARTER_MERGE"), If(Mesos(50000), Say("next"), Bye("ok")),
      If(AllOf({Level(160), Fact("MakerProcessor.getMakerSkillLevel(getPlaye.."), Mesos(50000)}),
        Say("next"),
      Bye("ok")))),
    Bye("ok")), Say("text"),
    If(Fact("mergeAllItemsFromName(getText())#1"),
      Do(<<Call("mergeAllItemsFromName"), Pay(50000)>>, Bye("ok")),
    Do(<<Call("mergeAllItemsFromName")>>, Bye("ok")))>>)

n9000041 == Talk(BackOrLeave, <<
    If(Fact("ServerConstants.USE_ENABLE_CUSTOM_NPC_SCRIPT"), Say("simple"), Bye("ok")),
    Say("text"), Do(<<Call("sellAllItemsFromName")>>, Bye("ok"))>>)

n9000049 == Talk(BackOrLeave, <<
    If(Fact("isGM()"), Say("simple"),
    If(Fact("getClient().getChannelServer().getStoredVa.."), Bye("ok"),
    Do(<<WarpTo("(980040000 + (getClient().getChannelServer..")>>, Leave))),
    If(Fact("isGM()"),
      If(Chose(0),
        If(Fact("getClient().getChannelServer().getStoredVa.."), Bye("ok"),
        Do(<<WarpTo("(980040000 + (getClient().getChannelServer..")>>, Leave)),
      Do(<<Call("getClient().getChannelServer().setStoredVa..")>>, Leave)),
    Leave)>>)

n9000055 == Talk(BackOrLeave, <<
    Say("simple"), If(Chose(0), Say("number"), Bye("ok")),
    If(Fact("selection >= 1"),
      If(HasThe("4001165,selection"),
        Do(<<TakeThe("4001165,selection"), Call("addSunshines selection")>>, Bye("ok")),
      Bye("ok")),
    Idle)>>)

n9010001 == Once(Bye("next"))
n9010002 == Talk(BackOrLeave, <<Say("simple"), If(Chose(0), Fail, Bye("ok"))>>)
n9010003 == Once(Bye("next"))
n9010004 == Once(Bye("next"))
n9010021 == Once(Bye("ok"))

n9010022 == Talk(BackOrLeave, <<
    If(Level(20), Say("simple"), Bye("simple")),
    If(Chose(1), Do(<<Call("saveLocation MIRROR"), Warp(925020000)>>, Leave),
    If(Chose(7), Do(<<Call("saveLocation MIRROR"), Warp(970010000)>>, Leave),
    If(Chose(8), Do(<<Call("saveLocation MIRROR"), Warp(741000200)>>, Leave),
    Do(<<Call("saveLocation MIRROR")>>, Leave))))>>)
=============================================================================
