----------------------------- MODULE NpcScripts8 ----------------------------
(***************************************************************************)
(* Tables of the scripts under scripts/npc: party quests, guilds and Japan.*)
(* n<id> is the conversation of a script, its start() and action().        *)
(***************************************************************************)
EXTENDS Dialogue

n9020000 == Talk(BackOrLeave, <<
    If(Fact("getMapId() >= 103000800"),
      If(Fact("getMapId() >= 103000806"),
        If(Fact("getEventManager('KerningPQ') = null"), Do(<<Page("ok")>>, Bye("simple")),
        If(Fact("isUsingOldPqNpcStyle()"),
          If(Fact("getParty() = null"), Bye("ok"),
          If(AllOf({Fact("isLeader()"), Fact("getEventManager('KerningPQ').getEligiblePa..")}),
            If(Fact("getEventManager('KerningPQ').startInstance.."),
              Do(<<Call("getEventManager('KerningPQ').startInstance 1")>>, Leave),
            Do(<<Call("getEventManager('KerningPQ').startInstance 1")>>, Bye("ok"))),
          Bye("ok"))),
        Keep("state=0", Say("simple")))),
      Keep("state=1", Say("yesNo"))),
    If(Fact("getEventManager('KerningPQ') = null"), Do(<<Page("ok")>>, Bye("simple")),
    If(Fact("isUsingOldPqNpcStyle()"),
      If(Fact("getParty() = null"), Bye("ok"),
      If(AllOf({Fact("isLeader()"), Fact("getEventManager('KerningPQ').getEligiblePa..")}),
        If(Fact("getEventManager('KerningPQ').startInstance.."),
          Do(<<Call("getEventManager('KerningPQ').startInstance 1")>>, Leave),
        Do(<<Call("getEventManager('KerningPQ').startInstance 1")>>, Bye("ok"))),
      Bye("ok"))),
    Keep("state=0", Say("simple"))))),
    When("state=0",
        If(Chose(0),
          If(Fact("getParty() = null"), Bye("ok"),
          If(AllOf({Fact("isLeader()"), Fact("getEventManager('KerningPQ').getEligiblePa..")}),
            If(Fact("getEventManager('KerningPQ').startInstance.."),
              Do(<<Call("getEventManager('KerningPQ').startInstance 1")>>, Leave),
            Do(<<Call("getEventManager('KerningPQ').startInstance 1")>>, Bye("ok"))),
          Bye("ok"))),
        If(Chose(1), Do(<<Call("toggleRecvPartySearchInvite")>>, Bye("ok")), Bye("ok"))))
    \cup When("state=1", Do(<<Warp(103000000)>>, Leave))>>)

n9020001 == Talk(BackOrLeave, <<
    If(Fact("getEventInstance().getProperty('{((getMapI.."),
      If(InMap(103000800),
        If(Fact("isEventLeader()"),
          If(HasThe("4001008,(getEventInstance().getPlayerCount.."),
            Do(<<Page("next"), Call("getEventInstance().setProperty true"),
                 Call("getEventInstance().linkToNextStage kpq"),
                 Call("getEventInstance().gridClear"),
                 TakeThe("4001008,(getEventInstance().getPlayerCount..")>>, Leave),
          Bye("next")),
        If(Fact("getEventInstance().gridCheck(getPlayer())#..3"),
          Do(<<Call("getEventInstance().gridCheck")>>, Bye("next")),
        If(Fact("getEventInstance().gridCheck(getPlayer())#.."),
          Do(<<Call("getEventInstance().gridCheck"),
               Call("getEventInstance().gridInsert")>>, Bye("next")),
        If(Fact("itemQuantity(4001007) = stage1Answers[(get.."),
          Do(<<Call("getEventInstance().gridCheck"), Page("next"),
               TakeThe("4001007,stage1Answers[(getEventInstance().."), Give(4001008, 1),
               Call("getEventInstance().gridInsert 0")>>, Leave),
        Do(<<Call("getEventInstance().gridCheck")>>, Bye("next")))))),
      If(InMap(103000801),
        If(Fact("getEventInstance().isEventLeader(getPlayer.."),
          If(Fact("getEventInstance().getProperty('stg2Proper.."),
            Do(<<Page("next"), Call("getEventInstance().setProperty stg2Property")>>, Leave),
          If(AllOf({Fact("getEventInstance().getPlayerCount() >= 1"),
                    Fact("new Rectangle(-755,-132,4,218).contains(ge..")}),
            If(Fact("areaCombos[getEventInstance().getProperty.."),
              If(Fact("areaCombos[getEventInstance().getProperty..2"),
                Do(<<Call("getEventInstance().setProperty true"),
                     Call("getEventInstance().linkToNextStage kpq")>>, Bye("next")),
              Bye("next")),
            Do(<<Call("getEventInstance().setProperty true"),
                 Call("getEventInstance().linkToNextStage kpq")>>, Bye("next"))),
          If(Fact("areaCombos[getEventInstance().getProperty.."),
            If(Fact("areaCombos[getEventInstance().getProperty..3"),
              Do(<<Call("getEventInstance().setProperty true"),
                   Call("getEventInstance().linkToNextStage kpq")>>, Bye("next")),
            Bye("next")),
          Do(<<Call("getEventInstance().setProperty true"),
               Call("getEventInstance().linkToNextStage kpq")>>, Bye("next"))))),
        Bye("ok")),
      If(InMap(103000802),
        If(Fact("getEventInstance().isEventLeader(getPlayer.."),
          If(Fact("getEventInstance().getProperty('stg3Proper.."),
            Do(<<Page("next"), Call("getEventInstance().setProperty stg3Property")>>, Leave),
          If(AllOf({Fact("getEventInstance().getPlayerCount() >= 1"),
                    Fact("new Rectangle(608,-180,140,50).contains(ge..")}),
            If(Fact("areaCombos[getEventInstance().getProperty..4"),
              If(Fact("areaCombos[getEventInstance().getProperty..5"),
                Do(<<Call("getEventInstance().setProperty true"),
                     Call("getEventInstance().linkToNextStage kpq")>>, Bye("next")),
              Bye("next")),
            Do(<<Call("getEventInstance().setProperty true"),
                 Call("getEventInstance().linkToNextStage kpq")>>, Bye("next"))),
          If(Fact("areaCombos[getEventInstance().getProperty..4"),
            If(Fact("areaCombos[getEventInstance().getProperty..6"),
              Do(<<Call("getEventInstance().setProperty true"),
                   Call("getEventInstance().linkToNextStage kpq")>>, Bye("next")),
            Bye("next")),
          Do(<<Call("getEventInstance().setProperty true"),
               Call("getEventInstance().linkToNextStage kpq")>>, Bye("next"))))),
        Bye("ok")),
      If(InMap(103000803),
        If(Fact("getEventInstance().isEventLeader(getPlayer.."),
          If(Fact("getEventInstance().getProperty('stg4Proper.."),
            Do(<<Page("next"), Call("getEventInstance().setProperty stg4Property")>>, Leave),
          If(AllOf({Fact("getEventInstance().getPlayerCount() >= 1"),
                    Fact("new Rectangle(910,-236,35,5).contains(getE..")}),
            If(Fact("areaCombos[getEventInstance().getProperty..7"),
              If(Fact("areaCombos[getEventInstance().getProperty..8"),
                Do(<<Call("getEventInstance().setProperty true"),
                     Call("getEventInstance().linkToNextStage kpq")>>, Bye("next")),
              Bye("next")),
            Do(<<Call("getEventInstance().setProperty true"),
                 Call("getEventInstance().linkToNextStage kpq")>>, Bye("next"))),
          If(Fact("areaCombos[getEventInstance().getProperty..7"),
            If(Fact("areaCombos[getEventInstance().getProperty..9"),
              Do(<<Call("getEventInstance().setProperty true"),
                   Call("getEventInstance().linkToNextStage kpq")>>, Bye("next")),
            Bye("next")),
          Do(<<Call("getEventInstance().setProperty true"),
               Call("getEventInstance().linkToNextStage kpq")>>, Bye("next"))))),
        Bye("ok")),
      If(InMap(103000804),
        If(AllOf({Fact("getEventInstance().isEventLeader(getPlayer.."), Has(4001008, 10)}),
          Do(<<Page("next"), Take(4001008, 10), Call("getEventInstance().setProperty true"),
               Call("getEventInstance().linkToNextStage kpq"),
               Call("getEventInstance().clearPQ")>>, Leave),
        Bye("next")),
      Idle))))),
    If(Fact("((getMapId() - 103000800) + 1) >= 5"), Say("next"), Bye("next"))),
    If(Fact("getEventInstance().giveEventReward(getPlay.."),
      Do(<<Call("getEventInstance().giveEventReward"),
           Call("getEventInstance().givePQTourDrops Kerning.."), Warp(103000805)>>, Leave),
    Do(<<Call("getEventInstance().giveEventReward")>>, Bye("next")))>>)

n9020002 == Talk(BackOrLeave, <<
    If(InMap(103000890), Keep("page=next", Say("next")), Keep("page=yesNo", Say("yesNo"))),
    If(InMap(103000890), Do(<<Warp(103000000)>>, Leave), Do(<<Warp(103000890)>>, Leave))>>)

n9030000 ==
  Once(If(Fact("hasMerchant()"), Bye("ok"),
       If(Fact("hasMerchantItems()"), Do(<<Call("showFredrick")>>, Leave), Bye("ok"))))

n9030100 == Once(Do(<<Call("getStorage().sendStorage 9030100")>>, Leave))

n9040001 == Talk(BackOrLeave, <<
    Say("yesNo"),
    If(Fact("getEventInstance() = null"), Do(<<Warp(101030104)>>, Leave),
    If(Fact("getEventInstance().isEventCleared()"),
      If(Fact("getEventInstance().giveEventReward(getPlay.."),
        Do(<<Call("getEventInstance().giveEventReward"), Warp(101030104)>>, Leave),
      Do(<<Call("getEventInstance().giveEventReward")>>, Bye("next"))),
    Do(<<Warp(101030104)>>, Leave)))>>)

n9040002 == But(Talk(LeaveUnlessYes, <<
    Say("simple"),
    If(Chose(0), Say("next"),
    If(Chose(1), To(-1, Say("next")), If(Chose(2), Say("next"), Bye("ok")))),
    If(AnyOf({Chose(0), Chose(2)}), Say("nextPrev"), Leave)>>),
    At(2, "yes", To(0, Say("simple"))))

n9040003 ==
  Once(If(Fact("getEventInstance().getProperty('stage4clea.."),
         If(Fact("isEventLeader()"),
           Do(<<Page("next"), Call("getEventInstance().setProperty stage4clear.."),
                Call("getEventInstance().giveEventPlayersStageRe..2"),
                Call("getGuild().gainGP 30"),
                Call("getMap().getReactorByName('ghostgate').for..")>>, Leave),
         Bye("ok")),
       If(Fact("getEventInstance().getProperty('stage4clea..2"), Bye("ok"),
       If(Fact("isEventLeader()"),
         Do(<<Page("next"), Call("getEventInstance().setProperty stage4clear.."),
              Call("getEventInstance().giveEventPlayersStageRe..2"), Call("getGuild().gainGP 30"),
              Call("getMap().getReactorByName('ghostgate').for..")>>, Leave),
       Bye("ok")))))

n9040004 == Once(Do(<<Call("displayGuildRanks")>>, Leave))
n9040005 == Talk(BackOrLeave, <<Say("yesNo"), Do(<<Warp(101030104)>>, Leave)>>)
n9040007 == Once(Bye("ok"))
n9040008 == Once(Do(<<Call("displayGuildRanks")>>, Leave))

n9040010 ==
  Once(If(Fact("getEventInstance() = null"), Do(<<Warp(990001100)>>, Leave),
       If(AllOf({Fact("isEventLeader()"), Has(4001024, 1)}),
         If(Fact("getEventInstance().setProperty('bossclear'.."),
           If(Fact("(1000 - floor(((Date.now()#3 - getEventIns.."),
             Do(<<TakeAll(4001024), Call("getEventInstance().setProperty bossclear t.."),
                  Call("Date.now"), Call("getGuild().gainGP"),
                  Call("getEventInstance().clearPQ")>>, Leave),
           Do(<<TakeAll(4001024), Call("getEventInstance().setProperty bossclear t.."),
                Call("Date.now"), Call("getGuild().gainGP 100"),
                Call("getEventInstance().clearPQ")>>, Leave)),
         Do(<<TakeAll(4001024), Call("getEventInstance().setProperty bossclear t.."),
              Call("getEventInstance().clearPQ")>>, Leave)),
       Bye("ok"))))

n9040011 == Once(Bye("ok"))
n9040012 == Once(Bye("ok"))

n9060000 == Opens(
        If(AllOf({Has(4031508, 5), Has(4031507, 5)}), To(-1, Keep("completed=true", Say("next"))),
        To(-1, Keep("completed=false", Say("yesNo")))),
    Talk(LeaveUnlessYes, <<
    When("completed=true", Keep("completed=true", Say("ok")))
    \cup When("completed=false", Keep("completed=false", Say("ok"))),
    When("completed=true", Do(<<Call("getEventInstance().clearPQ")>>, Leave))
    \cup When("completed=false", Do(<<Warp(923010100)>>, Leave))>>))

n9101001 == Talk(BackOrLeave, <<
    Say("simple"),
    If(Chose(0), Keep("choice=0", Say("yesNo")),
    If(Chose(1), Keep("choice=1", Say("yesNo")), Keep("choice=2", Say("yesNo")))),
    When("choice=0",
        Do(<<Warp(10000), Call("changeJobById 0"),
             Given(Fact("getGender() = 0"), <<Give(1040002, 1), Give(1060002, 1)>>),
             Unless(Fact("getGender() = 0"), <<Give(1041002, 1), Give(1061002, 1)>>),
             Give(1072005, 1), Give(1322005, 1), Give(4161001, 1)>>, Leave))
    \cup When("choice=1",
        Do(<<Warp(130030000), Call("changeJobById 1000"),
             Given(Fact("getGender() = 0"), <<Give(1040002, 1), Give(1060002, 1)>>),
             Unless(Fact("getGender() = 0"), <<Give(1041002, 1), Give(1061002, 1)>>),
             Give(1072005, 1), Give(1322005, 1), Give(4161047, 1)>>, Leave))
    \cup When("choice=2",
        Do(<<Warp(914000000), Call("changeJobById 2000"), Give(1042167, 1), Give(1062115, 1),
             Give(1072383, 1), Give(1442079, 1), Give(4161048, 1)>>, Leave))>>)

n9102100 == But(Talk(Rule(1, -1, 0, -1), <<
    On("open", If(Started(4646), If(Has(4031921, 1), Bye("next"), Say("yesNo")), Bye("ok")))
    \cup On("decline", Bye("next")), Do(<<Page("next"), Give(4031921, 1)>>, Leave)>>),
    At(0, "end", Idle))

n9102101 == But(Talk(BackOrLeave, <<
    Say("yesNo"), Do(<<Page("next"), Give(4031922, 1)>>, Leave)>>),
    At(0, "decline", Bye("next")))

n9103000 == Talk(BackOrLeave, <<
    If(AllOf({Fact("isEventLeader()"), Fact("getEventInstance().isEventTeamTogether()"),
              Has(4001106, 30)}),
      Say("yesNo"),
    Bye("ok")),
    Do(<<TakeAll(4001106), Call("getEventInstance().giveEventPlayersExp"),
         Call("getEventInstance().clearPQ")>>, Leave)>>)

n9103001 == Talk(BackOrLeave, <<
    If(Fact("getEventManager('LudiMazePQ') = null"), Bye("ok"),
    If(Fact("isUsingOldPqNpcStyle()"),
      If(Fact("getParty() = null"), Bye("ok"),
      If(AllOf({Fact("isLeader()"), Fact("getEventManager('LudiMazePQ').getEligibleP..")}),
        If(Fact("getEventManager('LudiMazePQ').startInstanc.."),
          Do(<<Call("getEventManager('LudiMazePQ').startInstanc..")>>, Leave),
        Do(<<Call("getEventManager('LudiMazePQ').startInstanc..")>>, Bye("ok"))),
      Bye("ok"))),
    Say("simple"))),
    If(Chose(0),
      If(Fact("getParty() = null"), Bye("ok"),
      If(AllOf({Fact("isLeader()"), Fact("getEventManager('LudiMazePQ').getEligibleP..")}),
        If(Fact("getEventManager('LudiMazePQ').startInstanc.."),
          Do(<<Call("getEventManager('LudiMazePQ').startInstanc..")>>, Leave),
        Do(<<Call("getEventManager('LudiMazePQ').startInstanc..")>>, Bye("ok"))),
      Bye("ok"))),
    Bye("ok"))>>)

n9103002 == Talk(BackOrLeave, <<
    Say("yesNo"),
    If(Fact("getEventInstance().giveEventReward(getPlay.."),
      Do(<<Call("getEventInstance().giveEventReward"),
           Call("getEventInstance().givePQTourDrops Ludibri..2"), Warp(809050017)>>, Leave),
    Do(<<Call("getEventInstance().giveEventReward")>>, Bye("next")))>>)

n9103003 == Talk(BackOrLeave, <<Say("next"), Do(<<Warp(220000000)>>, Leave)>>)

n9105004 == Talk(BackOrLeave, <<
    If(Fact("(getMapId() % 10) >= 1"),
      If(Fact("getEventInstance().getIntProperty('statusS..5"), Keep("state=1", Say("next")),
      If(Fact("getEventInstance().getIntProperty('statusS..6"),
        If(Fact("getMap().getMonsterById((9400321 + (5 * ge.."), Bye("next"),
        Keep("state=1", Say("next"))),
      If(Fact("getEventInstance().isEventCleared()"), Keep("state=1", Say("next")), Bye("next")))),
    If(Fact("getEventManager('HolidayPQ_{(((getMapId().."), Do(<<Page("ok")>>, Bye("simple")),
    If(Fact("isUsingOldPqNpcStyle()"),
      If(Fact("getParty() = null"), Bye("ok"),
      If(AllOf({Fact("isLeader()"), Fact("getEventManager('HolidayPQ_{(((getMapId()..2")}),
        If(Fact("getEventManager('HolidayPQ_{(((getMapId()..3"),
          Do(<<Call("getEventManager('HolidayPQ_{(((getMapId()..")>>, Leave),
        Do(<<Call("getEventManager('HolidayPQ_{(((getMapId()..")>>, Bye("ok"))),
      Bye("ok"))),
    Keep("state=0", Say("simple"))))),
    When("state=1",
        If(Fact("getEventInstance().getIntProperty('statusS..5"),
          If(Fact("isEventLeader()"),
            Do(<<Call("getEventInstance().getInstanceMap((8891000.."),
                 Call("getEventInstance().getInstanceMap((8891000..2"),
                 Call("getEventInstance().setIntProperty snowmanL.."),
                 Call("getEventInstance().setIntProperty statusSt..3")>>, Leave),
          Bye("ok")),
        If(Fact("getEventInstance().getIntProperty('statusS..6"),
          If(Fact("isEventLeader()"),
            Do(<<Call("getEventInstance().getEm().getIv().invokeF.."),
                 Call("getEventInstance().getInstanceMap((8891000..2"),
                 Call("getEventInstance().setProperty spawnedBoss.."),
                 Call("getEventInstance().setIntProperty statusSt..2")>>, Leave),
          Bye("ok")),
        If(Has(4032092, 1), Keep("gift=true", Say("simple")),
        If(Fact("getEventInstance().gridCheck(getPlayer())#.."),
          Do(<<Call("getEventInstance().gridCheck")>>, Keep("gift=false", Say("next"))),
        Do(<<Call("getEventInstance().gridCheck")>>, Bye("ok")))))))
    \cup When("state=0",
        If(Chose(0),
          If(Fact("getParty() = null"), Bye("ok"),
          If(AllOf({Fact("isLeader()"), Fact("getEventManager('HolidayPQ_{(((getMapId()..2")}),
            If(Fact("getEventManager('HolidayPQ_{(((getMapId()..3"),
              Do(<<Call("getEventManager('HolidayPQ_{(((getMapId()..")>>, Leave),
            Do(<<Call("getEventManager('HolidayPQ_{(((getMapId()..")>>, Bye("ok"))),
          Bye("ok"))),
        Bye("ok"))),
    When("gift=true",
        If(RoomFor("prizeTree[selection][0],prizeTree[selectio.."),
          If(Chose(1),
            Do(<<Take(4032092, 1), GiveThe("prizeTree[selection][0][0],prizeTree[selec.."),
                 GiveThe("(prizeTree[selection][0][1] + ((random * 9..")>>, Leave),
          Do(<<Take(4032092, 1), GiveThe("prizeTree[selection][0][0],prizeTree[selec.."),
               GiveThe("prizeTree[selection][0][1],prizeTree[selec..")>>, Leave)),
        Bye("ok")))
    \cup When("gift=false",
        If(Fact("getEventInstance().giveEventReward(getPlay..4"),
          Do(<<Call("getEventInstance().giveEventReward"),
               Call("getEventInstance().gridInsert 1")>>, Leave),
        Do(<<Call("getEventInstance().giveEventReward")>>, Bye("ok"))))>>)

n9105005 == Talk(BackOrLeave, <<
    Say("yesNo"),
    If(Fact("(getMapId() % 10) >= 1"), Do(<<WarpTo("(getMapId() + 1)")>>, Leave),
    Do(<<Warp(209000000)>>, Leave))>>)

n9110002 == Once(If(Completed(8074), Do(<<Call("openNpc 9110002")>>, Leave), Bye("ok")))
n9110100 == Once(Do(<<Call("openShopNPC 9110100")>>, Leave))
n9110101 == Once(Do(<<Call("openShopNPC 9110101")>>, Leave))
n9110103 == Once(Bye("ok"))
n9110104 == Once(Bye("ok"))

n9110105 == Opens(To(-1, Say("next")),
    Talk(OnwardUnlessEnd, <<
    Say("yesNo"), On("yes", Do(<<Warp(800040301)>>, Leave)) \cup On("decline", Bye("next"))>>))

n9110106 == Once(Bye("ok"))

n9110107 == Talk(StayUnlessEnd, <<
    On("open", Say("yesNo")) \cup On("decline", Bye("next")),
    If(InMap(800000000), Do(<<Warp(800040000)>>, Leave), Do(<<Warp(800000000)>>, Leave))>>)

n9110108 == Once(Bye("ok"))
n9110110 == Once(Bye("ok"))
n9110111 == Once(Bye("ok"))
n9110112 == Once(Bye("ok"))

n9110113 == But(Talk(BackOrLeave, <<
    If(Fact("hasDailyEntry('TOPSPIN')"), Bye("ok"), Keep("page=yesNo", Say("yesNo"))),
    When("page=yesNo", Keep("page=simple", Say("simple")))
    \cup When("page=simple", Do(<<Page("next"), Call("completeDaily TOPSPIN false")>>, Leave))
    \cup When("page=next", Do(<<Page("next"), Call("completeDaily TOPSPIN false")>>, Leave))>>),
    At(0, "decline",
      When("page=yesNo", Keep("page=next", Say("next")))
      \cup When("page=simple", Do(<<Page("next"), Call("completeDaily TOPSPIN false")>>, Leave))))

n9110114 == Once(Bye("ok"))

n9120003 == But(Talk(BackOrLeave, <<
    Say("yesNo"),
    If(Fact("getMeso >= 300"),
      Do(<<Pay(300), WarpTo("(801000100 + (100 * getGender()))")>>, Leave),
    Bye("ok"))>>),
    At(0, "decline", Bye("ok")))

n9120009 == Once(Do(<<Call("getStorage().sendStorage 9120009")>>, Leave))

n9120010 == But(Talk(BackOrLeave, <<
    Say("yesNo"), Say("simple"),
    If(RoomFor("eQuestPrizes[selection][floor((random * eQ.."),
      If(HasThe("eQuestChoices[selection],100"),
        Do(<<TakeThe("eQuestChoices[selection],100"),
             GiveThe("eQuestPrizes[selection][floor((random * eQ..")>>, Bye("ok")),
      Bye("ok")),
    Bye("next"))>>),
    At(0, "decline", Bye("ok")))

n9120015 == Talk(BackOrLeave, <<
    Say("simple"), If(Chose(0), Bye("next"), If(Chose(1), Say("next"), Bye("ok"))),
    Do(<<Warp(801040000)>>, Leave)>>)

n9120023 == Once(Bye("ok"))

n9120100 == Talk(BackOrLeave, <<
    Say("simple"), If(Chose(1), Keep("beauty=1", Say("style")), Keep("beauty=2", Say("style"))),
    When("beauty=1",
        If(Has(5150009, 1), Do(<<Close, Take(5150009, 1), Call("setHair")>>, Say("ok")),
        Bye("ok")))
    \cup When("beauty=2",
        If(Has(5151009, 1), Do(<<Close, Take(5151009, 1), Call("setHair")>>, Say("ok")),
        Bye("ok")))>>)

n9120101 == Talk(BackOrLeave, <<
    Say("simple"),
    If(Chose(1),
      If(AnyOf({Fact("getGender() = 0"), Fact("getGender() = 1")}),
        Keep("beauty=1; hairnew=[style]", Say("yesNo")),
      Keep("beauty=1; hairnew=[]", Say("yesNo"))),
    Keep("beauty=2; hairnew=[]", Say("yesNo"))),
    When("beauty=1; hairnew=[style]",
        If(Has(5150008, 1), Do(<<Close, Take(5150008, 1), Call("setHair")>>, Say("ok")),
        Bye("ok")))
    \cup When("beauty=1; hairnew=[]",
        If(Has(5150008, 1), Do(<<Close, Take(5150008, 1), Call("setHair")>>, Say("ok")),
        Bye("ok")))
    \cup When("beauty=2; hairnew=[]",
        If(Has(5151008, 1), Do(<<Close, Take(5151008, 1), Call("setHair")>>, Say("ok")),
        Bye("ok")))>>)

n9120200 == Talk(StayUnlessEnd, <<
    On("open", Say("yesNo")) \cup On("decline", Bye("ok")), Do(<<Warp(801000000)>>, Leave)>>)

n9120201 == Opens(
        If(AllOf({Fact("getLevel() < MapleExpeditionType.SHOWA.get.."),
                  Fact("getLevel() > MapleExpeditionType.SHOWA.get..")}),
          Bye("ok"),
        If(Fact("getExpedition(MapleExpeditionType.SHOWA) =.."), To(1, Say("simple")),
        If(Fact("getExpedition(MapleExpeditionType.SHOWA).i.."),
          If(Fact("getExpedition(MapleExpeditionType.SHOWA).i..2"), Bye("ok"),
          To(2, Say("simple"))),
        If(Fact("getExpedition(MapleExpeditionType.SHOWA).i..3"),
          If(Fact("getExpedition(MapleExpeditionType.SHOWA).c.."), Bye("ok"),
          Do(<<Call("getExpedition(MapleExpeditionType.SHOWA).a..")>>, Bye("ok"))),
        If(Fact("getExpedition(MapleExpeditionType.SHOWA).i..2"),
          If(AllOf({Fact("getExpedition(MapleExpeditionType.SHOWA).c.."),
                    Fact("getEventManager('ShowaBattle').getInstance..")}),
            Do(<<Call("getEventManager('ShowaBattle').getInstance..")>>, Leave),
          Bye("ok")),
        To(0, Idle)))))),
    Talk(Rule(0, -1, Gone, Gone), <<
    Idle,
    If(AllOf({Chose(1), Has(4000138, 1), Fact("getExpedition(MapleExpeditionType.SHOWA) =..")}),
      Do(<<Call("createExpedition MapleExpeditionType.SHOWA")>>, Bye("ok")),
    Bye("ok")),
    If(Chose(1),
      If(AnyOf({Fact("getExpedition(MapleExpeditionType.SHOWA) =.."),
                Fact("getExpedition(MapleExpeditionType.SHOWA).g..")}),
        Bye("ok"),
      To(6, Say("simple"))),
    If(Chose(2),
      If(Fact("getExpedition(MapleExpeditionType.SHOWA).g..2"), Bye("ok"), To(4, Say("ok"))),
    Do(<<Call("endExpedition")>>, Bye("ok")))), Idle,
    If(Fact("getEventManager('ShowaBattle') = null"), Bye("ok"),
    If(Fact("getEventManager('ShowaBattle').startInstan.."),
      Do(<<Call("getEventManager('ShowaBattle').setProperty.."),
           Call("getEventManager('ShowaBattle').setProperty..2"),
           Call("getEventManager('ShowaBattle').startInstance")>>, Leave),
    Do(<<Call("getEventManager('ShowaBattle').setProperty.."),
         Call("getEventManager('ShowaBattle').setProperty..2"),
         Call("getEventManager('ShowaBattle').startInstance")>>, Bye("ok")))), Idle,
    Do(<<Call("getExpedition(MapleExpeditionType.SHOWA).ban")>>, Bye("ok"))>>))

n9120202 == Talk(BackOrLeave, <<
    If(Fact("getEventInstance().isEventCleared()"), Keep("page=next", Say("next")),
    Keep("page=yesNo", Say("yesNo"))),
    If(Fact("getEventInstance().isEventCleared()"),
      If(Fact("getEventInstance().giveEventReward(getPlay.."),
        Do(<<Call("getEventInstance().giveEventReward"), Warp(801040101)>>, Leave),
      Do(<<Call("getEventInstance().giveEventReward")>>, Bye("next"))),
    Do(<<Warp(801040004)>>, Leave))>>)

n9120203 == Talk(BackOrLeave, <<Say("next"), Do(<<Warp(801000000)>>, Leave)>>)
n9200000 == Once(Bye("ok"))
=============================================================================
