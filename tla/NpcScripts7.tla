----------------------------- MODULE NpcScripts7 ----------------------------
(***************************************************************************)
(* Tables of the scripts under scripts/npc: Masteria, Singapore and the scripts without a number.*)
(* n<id> is the conversation of a script, its start() and action().        *)
(***************************************************************************)
EXTENDS Dialogue

n9201000 == Talk(BackOrLeave, <<
    Say("simple"),
    If(Chose(0),
      If(Completed(100400),
        If(AnyOf({Has(2240000, 1), Has(2240001, 1), Has(2240002, 1), Has(2240003, 1)}), Bye("ok"),
        If(Fact("getGender() = 0"), Keep("state=1", Say("simple")), Bye("ok"))),
      If(Started(100400), Bye("ok"), Keep("state=0", Say("next")))),
    If(AnyOf({Has(2240000, 1), Has(2240001, 1), Has(2240002, 1), Has(2240003, 1)}),
      Do(<<TakeAll(2240000), TakeAll(2240001), TakeAll(2240002), TakeAll(2240003)>>, Bye("ok")),
    Bye("ok"))),
    When("state=1", Say("yesNo")) \cup When("state=0", Do(<<Page("ok"), Start(100400)>>, Leave)),
    If(AllOf({RoomFor("itemSet[selection],1"), MesosFor("(costSet[selection] * 1)")}),
      If(Fact("matSet[selection] instanceof Array"),
        If(Fact("matSet[selection].length >= 1"),
          If(HasThe("matSet[selection][0],(matQtySet[selection]..2"),
            Do(<<TakeThe("matSet[selection][0],(-matQtySet[selection.."),
                 Given(Fact("costSet[selection] >= 1"), <<PayFor("(-costSet[selection] * 1)")>>),
                 GiveThe("itemSet[selection]")>>, Bye("ok")),
          Bye("ok")),
        Do(<<Given(Fact("costSet[selection] >= 1"), <<PayFor("(-costSet[selection] * 1)")>>),
             GiveThe("itemSet[selection]")>>, Bye("ok"))),
      If(HasThe("matSet[selection],(matQtySet[selection] * 1)"),
        Do(<<TakeThe("matSet[selection],(-matQtySet[selection] *.."),
             Given(Fact("costSet[selection] >= 1"), <<PayFor("(-costSet[selection] * 1)")>>),
             GiveThe("itemSet[selection]")>>, Bye("ok")),
      Bye("ok"))),
    Bye("ok"))>>)

n9201004 == Talk(BackOrLeave, <<
    Say("simple"),
    If(AnyOf({Chose(0), Chose(1), Chose(2)}), Bye("ok"),
    If(Fact("getMarriageRing() = null"),
      If(Fact("haveItemWithId(1112806,false)"), Do(<<Page("ok"), Take(1112806, 1)>>, Leave),
      If(Fact("haveItemWithId(1112803,false)"), Do(<<Page("ok"), Take(1112803, 1)>>, Leave),
      If(Fact("haveItemWithId(1112807,false)"), Do(<<Page("ok"), Take(1112807, 1)>>, Leave),
      If(Fact("haveItemWithId(1112809,false)"), Do(<<Page("ok"), Take(1112809, 1)>>, Leave),
      Bye("ok"))))),
    Say("yesNo"))),
    If(Mesos(500000),
      If(Fact("getMarriageRing().equipped()#1"),
        Do(<<Call("getMarriageRing().equipped")>>, Bye("ok")),
      Do(<<Call("getMarriageRing().equipped"), Pay(500000),
           Call("RingActionHandler.breakMarriageRing"),
           TakeThe("getMarriageRing().getItemId()")>>, Bye("ok"))),
    Bye("ok"))>>)

n9201010 == Talk(BackOrLeave, <<
    If(Fact("getEventInstance() = null"), Do(<<Warp(680000000)>>, Leave),
    If(AnyOf({Fact("getId() = getEventInstance().getIntPropert.."),
              Fact("getId() = getEventInstance().getIntPropert..2")}),
      If(InMap(680000300), Keep("page=yesNo", Say("yesNo")),
      If(AnyOf({Has(4031357, 1), Has(4031358, 1), Has(4031359, 1), Has(4031360, 1),
                Has(4031361, 1), Has(4031362, 1), Has(4031363, 1), Has(4031364, 1)}),
        If(Has(4000313, 1),
          If(Fact("getEventInstance().getIntProperty('wedding.."), Bye("ok"),
          If(Fact("createMarriageWishlist()#1"), Do(<<Call("createMarriageWishlist")>>, Leave),
          Do(<<Call("createMarriageWishlist")>>, Bye("ok")))),
        If(Fact("getEventInstance().getIntProperty('wedding.."), Bye("ok"),
        Keep("page=yesNo", Say("yesNo")))),
      If(Has(4000313, 1),
        If(Fact("getEventInstance().getIntProperty('wedding.."), Bye("ok"),
        Keep("page=ok", Say("ok"))),
      If(Fact("getEventInstance().getIntProperty('wedding.."), Bye("ok"),
      Keep("page=yesNo", Say("yesNo")))))),
    Keep("page=yesNo", Say("yesNo")))), Do(<<Warp(680000000)>>, Leave)>>)

n9201013 == Once(Bye("ok"))

n9201014 == Talk(BackOrLeave, <<
    If(Fact("getMarriageInstance() = null"),
      If(Fact("getUnclaimedMarriageGifts().isEmpty()"),
        If(AnyOf({Has(4031423, 1), Has(4031424, 1)}), Keep("marriageAction=1", Say("simple")),
        Bye("ok")),
      Keep("marriageAction=2", Say("next"))),
    Keep("marriageAction=0", Say("simple"))),
    When("marriageAction=1",
        If(Chose(0),
          If(AllOf({Has(4031424, 1), Fact("isMarried()"),
                    Fact("getInventory(2).getNextFreeSlot() >= 0")}),
            Fail,
          Bye("ok")),
        If(AllOf({Has(4031423, 1), Fact("getInventory(2).getNextFreeSlot() >= 0")}), Fail,
        Bye("ok"))))
    \cup When("marriageAction=2", Do(<<Call("sendMarriageGifts")>>, Leave))
    \cup When("marriageAction=0",
        If(Chose(0), Do(<<Call("sendMarriageWishlist true")>>, Leave),
        Do(<<Call("sendMarriageWishlist false")>>, Leave)))>>)

n9201015 == Talk(BackOrLeave, <<
    Say("simple"), If(Chose(1), Keep("beauty=1", Say("style")), Keep("beauty=2", Say("style"))),
    When("beauty=1",
        If(Has(5150020, 1), Do(<<Close, Take(5150020, 1), Call("setHair")>>, Say("ok")),
        Bye("ok")))
    \cup When("beauty=2",
        If(Has(5151017, 1), Do(<<Close, Take(5151017, 1), Call("setHair")>>, Say("ok")),
        Bye("ok")))>>)

n9201016 == Talk(BackOrLeave, <<
    Say("simple"),
    If(Chose(1),
      If(AnyOf({Fact("getGender() = 0"), Fact("getGender() = 1")}),
        Keep("beauty=1; hairnew=[style]", Say("yesNo")),
      Keep("beauty=1; hairnew=[]", Say("yesNo"))),
    Keep("beauty=2; hairnew=[]", Say("yesNo"))),
    When("beauty=1; hairnew=[style]",
        If(Has(5150019, 1), Do(<<Close, Take(5150019, 1), Call("setHair")>>, Say("ok")),
        If(Has(5420000, 1), Do(<<Close, Call("setHair")>>, Say("ok")), Bye("ok"))))
    \cup When("beauty=1; hairnew=[]",
        If(Has(5150019, 1), Do(<<Close, Take(5150019, 1), Call("setHair")>>, Say("ok")),
        If(Has(5420000, 1), Do(<<Close, Call("setHair")>>, Say("ok")), Bye("ok"))))
    \cup When("beauty=2; hairnew=[]",
        If(Has(5151016, 1), Do(<<Close, Take(5151016, 1), Call("setHair")>>, Say("ok")),
        Bye("ok")))>>)

n9201018 == Talk(BackOrLeave, <<
    Say("simple"), Say("style"),
    If(Has(5152022, 1), Do(<<Take(5152022, 1), Call("setFace")>>, Say("ok")), Bye("ok")), Idle>>)

n9201019 == Talk(BackOrLeave, <<
    Say("simple"),
    If(AnyOf({Fact("getGender() = 0"), Fact("getGender() = 1")}),
      Keep("facenew=[style]", Say("yesNo")),
    Keep("facenew=[]", Say("yesNo"))),
    If(Has(5152021, 1), Do(<<Take(5152021, 1), Call("setFace")>>, Say("ok")), Bye("ok")), Idle>>)

n9201021 == Talk(StayUnlessEnd, <<
    On("open", Say("simple")) \cup On("decline", Bye("ok")),
    If(InMap(680000401), Do(<<Warp(680000400)>>, Leave), Do(<<Warp(680000500)>>, Bye("ok")))>>)

n9201022 == Opens(To(-1, Say("yesNo")),
    Talk(OnwardUnlessEnd, <<
    On("yes", Say("next")) \cup On("decline", Bye("ok")),
    If(InMap(100000000), Do(<<Warp(680000000)>>, Leave), Do(<<Warp(100000000)>>, Leave))>>))

n9201033 == But(Talk(BackUnlessEnd, <<
    If(InMap(209000000), Keep("b2h=undefined", Say("yesNo")),
    If(InMap(681000000), Keep("b2h=1", Say("yesNo")), Idle)),
    When("b2h=undefined", Do(<<Warp(681000000)>>, Leave))
    \cup When("b2h=1", Do(<<Warp(209000000)>>, Leave))>>),
    At(0, "decline", Bye("next")))

n9201039 == Talk(Onward, <<
    If(Completed(8860), If(Has(4031528, 1), Say("yesNo"), Bye("next")), Say("yesNo")),
    On("yes", Say("next")) \cup On("decline", Bye("next")) \cup On("end", Bye("next")),
    On("yes",
        If(Has(4031528, 1), Do(<<Take(4031528, 1), Call("setHair")>>, Bye("nextPrev")),
        Bye("next")))
    \cup On("end",
        If(Has(4031528, 1), Do(<<Close, Take(4031528, 1), Call("setHair")>>, Say("nextPrev")),
        Bye("next")))>>)

n9201043 == Talk(StayUnlessEnd, <<
    On("open", Say("simple")) \cup On("decline", Bye("ok")),
    On("yes",
        If(Chose(0), If(Has(4031592, 1), Keep("MySelection=0", Say("yesNo")), Bye("ok")),
        If(Has(4031592, 1), Bye("ok"),
        If(Has(4031593, 10), Keep("MySelection=1", Say("yesNo")), Bye("ok")))))
    \cup On("decline", Bye("ok")),
    When("MySelection=0", Do(<<Warp(670010100), Take(4031592, 1)>>, Leave))
    \cup When("MySelection=1", Do(<<Take(4031593, 10), Give(4031592, 1)>>, Leave))>>)

n9201044 ==
  Once(If(AllOf({Fact("getEventInstance().getProperty('{(floor..2"),
                 Fact("getEventInstance().isEventLeader(getPlayer..")}),
         If(Fact("getEventInstance().getIntProperty('statusS..7"),
           If(AnyOf({Fact("(floor(((getMapId() - 670010200) / 100)) +.."),
                     Fact("(floor(((getMapId() - 670010200) / 100)) +..2"),
                     Fact("(floor(((getMapId() - 670010200) / 100)) +..3")}),
             Do(<<Page("ok"), Call("getEventInstance().setProperty 0")>>, Leave),
           Do(<<Call("getEventInstance().setProperty 0")>>, Leave)),
         If(Fact("getEventInstance().getIntProperty('statusS..8"),
           If(Fact("(floor(((getMapId() - 670010200) / 100)) +..4"),
             Do(<<Call("getEventInstance().setProperty 1"),
                  Call("getEventInstance().setProperty true"),
                  Call("getEventInstance().linkToNextStage apq")>>, Leave),
           Do(<<Call("getEventInstance().setProperty 1"),
                Call("getEventInstance().setProperty true"),
                Call("getMap().getPortal('go01').setPortalState.."),
                Call("getMap().getPortal('go0{floor((random * 3).."),
                Call("getEventInstance().linkPortalToScript")>>, Leave)),
         If(Fact("(floor(((getMapId() - 670010200) / 100)) +.."),
           If(Fact("getEventInstance().getIntProperty('statusS..9"),
             Do(<<Call("getEventInstance().setProperty true"),
                  Call("getMap().getPortal('go01').setPortalState.."),
                  Call("getMap().getPortal('go0{floor((random * 3).."),
                  Call("getEventInstance().linkPortalToScript")>>, Leave),
           Bye("ok")),
         If(AnyOf({Fact("(floor(((getMapId() - 670010200) / 100)) +..2"),
                   Fact("(floor(((getMapId() - 670010200) / 100)) +..3")}),
           Bye("next"),
         Leave)))),
       Bye("next")))

n9201045 ==
  Once(If(Fact("getEventInstance().getProperty('{(floor..2"),
         If(Fact("(floor(((getMapId() - 670010200) / 100)) +..5"),
           If(Fact("getMap().getArea(0).contains(getPosition())"),
             If(Fact("isAlive()"), Do(<<Warp(670010700)>>, Leave), Bye("next")),
           If(AllOf({Fact("isEventLeader()"), Has(4031594, 1)}),
             Do(<<Take(4031594, 1), Page("next"), Call("getEventInstance().setProperty true"),
                  Call("getEventInstance().linkToNextStage apq"),
                  Call("getEventInstance().clearPQ")>>, Leave),
           Bye("next"))),
         If(Fact("getEventInstance().isEventLeader(getPlayer.."),
           If(Fact("getEventInstance().getIntProperty('statusS..7"),
             If(AnyOf({Fact("(floor(((getMapId() - 670010200) / 100)) +..6"),
                       Fact("(floor(((getMapId() - 670010200) / 100)) +..7")}),
               Do(<<Page("ok"), Call("getEventInstance().setProperty 0")>>, Leave),
             Do(<<Call("getEventInstance().setProperty 0")>>, Leave)),
           If(Fact("(floor(((getMapId() - 670010200) / 100)) +..6"),
             If(Has(4031597, 50),
               If(Fact("getEventInstance().getTimeLeft() >= 300000"),
                 Do(<<Take(4031597, 50), Call("getEventInstance().setProperty timeLeft"),
                      Call("getEventInstance().restartEventTimer 240000"), Page("next"),
                      Call("getEventInstance().setProperty true"),
                      Call("getEventInstance().linkToNextStage apq")>>, Leave),
               Do(<<Take(4031597, 50), Page("next"), Call("getEventInstance().setProperty true"),
                    Call("getEventInstance().linkToNextStage apq")>>, Leave)),
             Bye("next")),
           If(Fact("(floor(((getMapId() - 670010200) / 100)) +..7"),
             If(Fact("getEventInstance().isEventTeamTogether()"),
               If(AllOf({Fact("getEventInstance().getPlayers().size() >= 1"),
                         Fact("getEventInstance().getPlayers().get(0).isA..")}),
                 If(AllOf({Fact("getMap().getArea(2).contains(getEventInsta.."),
                           Fact("getMap().getReactorByName('gate00').getSta.."),
                           Fact("getMap().getReactorByName('gate01').getSta.."),
                           Fact("getMap().getReactorByName('gate02').getSta.."),
                           Fact("getMap().getReactorByName('gate03').getSta.."),
                           Fact("getMap().getReactorByName('gate04').getSta.."),
                           Fact("getMap().getReactorByName('gate05').getSta.."),
                           Fact("getMap().getReactorByName('gate06').getSta..")}),
                   If(Fact("getEventInstance().getProperty('timeLeft').."),
                     Do(<<Page("next"), Call("getEventInstance().setProperty true"),
                          Call("getEventInstance().linkToNextStage apq")>>, Leave),
                   Do(<<Call("getEventInstance().restartEventTimer"), Page("next"),
                        Call("getEventInstance().setProperty true"),
                        Call("getEventInstance().linkToNextStage apq")>>, Leave)),
                 Bye("next")),
               If(AllOf({Fact("getMap().getReactorByName('gate00').getSta.."),
                         Fact("getMap().getReactorByName('gate01').getSta.."),
                         Fact("getMap().getReactorByName('gate02').getSta.."),
                         Fact("getMap().getReactorByName('gate03').getSta.."),
                         Fact("getMap().getReactorByName('gate04').getSta.."),
                         Fact("getMap().getReactorByName('gate05').getSta.."),
                         Fact("getMap().getReactorByName('gate06').getSta..")}),
                 If(Fact("getEventInstance().getProperty('timeLeft').."),
                   Do(<<Page("next"), Call("getEventInstance().setProperty true"),
                        Call("getEventInstance().linkToNextStage apq")>>, Leave),
                 Do(<<Call("getEventInstance().restartEventTimer"), Page("next"),
                      Call("getEventInstance().setProperty true"),
                      Call("getEventInstance().linkToNextStage apq")>>, Leave)),
               Bye("next"))),
             Bye("next")),
           Leave))),
         Bye("next"))),
       If(Fact("(floor(((getMapId() - 670010200) / 100)) +..8"),
         If(Fact("(floor(((getMapId() - 670010200) / 100)) +..7"),
           Do(<<Call("getEventInstance().warpEventTeamToMapSpawn..")>>, Leave),
         If(Fact("isEventLeader()"),
           If(Fact("getEventInstance().getIntProperty('married.."),
             Do(<<Call("getEventInstance().restartEventTimer 60000"),
                  Call("getEventInstance().warpEventTeam 670010800")>>, Leave),
           Do(<<Call("getEventInstance().setIntProperty marriedG.."),
                Call("getEventInstance().restartEventTimer 120000"),
                Call("getEventInstance().warpEventTeamToMapSpawn..2")>>, Leave)),
         Bye("next"))),
       Bye("next"))))

n9201046 ==
  Once(If(AllOf({InMap(670010750), Has(4031597, 35)}),
         If(Room(1102101, 1),
           If(Fact("getEventInstance().getIntProperty('married.."),
             If(Fact("getGender() = 0"),
               Do(<<Call("getEventInstance().setIntProperty marriedG..2"),
                    GiveThe("(1102101 + floor((random * 3)))"), Page("next"), Take(4031597, 35),
                    ExpOf("(4000 * getExpRate())")>>, Leave),
             Do(<<Call("getEventInstance().setIntProperty marriedG..2"),
                  GiveThe("(1102104 + floor((random * 3)))"), Page("next"), Take(4031597, 35),
                  ExpOf("(4000 * getExpRate())")>>, Leave)),
           Do(<<Page("next"), Take(4031597, 35), ExpOf("(4000 * getExpRate())")>>, Leave)),
         If(Fact("getEventInstance().getIntProperty('married.."), Bye("next"),
         Do(<<Page("next"), Take(4031597, 35), ExpOf("(4000 * getExpRate())")>>, Leave))),
       Bye("next")))

n9201047 == Talk(BackOrLeave, <<
    If(InMap(670010200),
      If(Fact("isEventLeader()"),
        If(Has(4031595, 1),
          Do(<<Take(4031595, 1), Call("getEventInstance().setIntProperty 1")>>, Bye("ok")),
        If(Fact("getEventInstance().getIntProperty('statusS..10"), Bye("ok"),
        If(Fact("getMap().countMonsters() = 0"),
          Do(<<Call("getEventInstance().setIntProperty 1"), Call("getMap().toggleDrops"),
               Call("getMap().spawnMonsterOnGroundBelow")>>, Bye("ok")),
        Bye("ok")))),
      Bye("ok")),
    Say("yesNo")), Do(<<Warp(670010000)>>, Leave)>>)

n9201048 == Talk(BackOrLeave, <<
    If(Fact("getEventManager('AmoriaPQ') = null"), Bye("ok"),
    If(Fact("isUsingOldPqNpcStyle()"),
      If(Fact("getParty() = null"), Bye("ok"),
      If(AllOf({Fact("isLeader()"), Fact("getEventManager('AmoriaPQ').getEligiblePar..")}),
        If(Fact("getEventManager('AmoriaPQ').startInstance.."),
          Do(<<Call("getEventManager('AmoriaPQ').startInstance 1")>>, Leave),
        Do(<<Call("getEventManager('AmoriaPQ').startInstance 1")>>, Bye("ok"))),
      Bye("ok"))),
    Say("simple"))),
    If(Chose(0),
      If(Fact("getParty() = null"), Bye("ok"),
      If(AllOf({Fact("isLeader()"), Fact("getEventManager('AmoriaPQ').getEligiblePar..")}),
        If(Fact("getEventManager('AmoriaPQ').startInstance.."),
          Do(<<Call("getEventManager('AmoriaPQ').startInstance 1")>>, Leave),
        Do(<<Call("getEventManager('AmoriaPQ').startInstance 1")>>, Bye("ok"))),
      Bye("ok"))),
    Bye("ok"))>>)

n9201049 == Talk(BackOrLeave, <<
    Say("ok"),
    If(Fact("getEventInstance() = null"), Do(<<Warp(680000000)>>, Leave),
    If(AnyOf({Fact("getId() = getEventInstance().getIntPropert.."),
              Fact("getId() = getEventInstance().getIntPropert..2")}),
      If(Room(4031424, 1), Do(<<Give(4031424, 1), Warp(680000000)>>, Bye("ok")), Bye("ok")),
    If(Room(4031423, 1), Do(<<Give(4031423, 1), Warp(680000000)>>, Bye("ok")), Bye("ok"))))>>)

n9201050 == Talk(BackOrLeave, <<
    If(AnyOf({Completed(4911), Completed(4900), Started(4900)}), Bye("next"),
    Keep("status=0", Say("simple"))),
    When("status=0",
        If(AnyOf({Chose(0), Chose(1), Chose(2), Chose(3), Chose(4), Chose(5), Chose(6), Chose(7),
                  Chose(8), Chose(9)}),
          Keep("status=-1", Say("next")),
        If(Level(10), Do(<<Page("next"), Start(4900)>>, Leave), Bye("next"))))
    \cup When("status=-1",
        If(AnyOf({Completed(4911), Completed(4900), Started(4900)}), Bye("next"),
        Keep("status=0", Say("simple"))))>>)

n9201051 == Talk(BackOrLeave, <<
    Keep("status=0", Say("simple")),
    When("status=0", Keep("status=1", Say("simple")))
    \cup When("status=1",
        If(Chose(1),
          If(AllOf({Has(4031757, 1), Has(4031756, 1), Room(4031823, 1)}),
            Do(<<Give(4031823, 1), Take(4031756, 1), Take(4031757, 1)>>, Leave),
          Bye("ok")),
        If(Chose(2),
          If(AllOf({Has(4031917, 1), Has(4031758, 1), Room(4031912, 1)}),
            Do(<<Give(4031912, 1), Take(4031917, 1), Take(4031758, 1)>>, Leave),
          Bye("ok")),
        If(Chose(3),
          If(AllOf({Has(4031755, 1), Has(4031756, 1), Has(4031758, 1), Room(4031825, 1)}),
            Do(<<Give(4031825, 1), Take(4031756, 1), Take(4031755, 1), Take(4031758, 1)>>, Leave),
          Bye("ok")),
        If(Chose(4),
          If(AllOf({Has(4031755, 1), Has(4031913, 1), Room(4031911, 1)}),
            Do(<<Give(4031911, 1), Take(4031755, 1), Take(4031913, 1)>>, Leave),
          Bye("ok")),
        If(Chose(5),
          If(AllOf({Has(4031915, 1), Has(4031916, 1), Room(4031910, 1)}),
            Do(<<Give(4031910, 1), Take(4031915, 1), Take(4031916, 1)>>, Leave),
          Bye("ok")),
        If(Chose(6),
          If(AllOf({Has(94031759, 1), Has(4031758, 1), Room(4031822, 1)}),
            Do(<<Give(4031822, 1), Take(4031759, 1), Take(4031758, 1)>>, Leave),
          Bye("ok")),
        If(Chose(7),
          If(AllOf({Has(4031916, 1), Has(4031914, 1), Room(4031908, 1)}),
            Do(<<Give(4031908, 1), Take(4031916, 1), Take(4031914, 1)>>, Leave),
          Bye("ok")),
        If(Chose(8),
          If(AllOf({Has(4031755, 1), Has(4031757, 1), Has(4031759, 1), Room(4031824, 1)}),
            Do(<<Give(4031824, 1), Take(4031757, 1), Take(4031755, 1), Take(4031759, 1)>>, Leave),
          Bye("ok")),
        If(Chose(9),
          If(AllOf({Has(4031917, 1), Has(4031913, 1), Room(4031907, 1)}),
            Do(<<Give(4031907, 1), Take(4031917, 1), Take(4031913, 1)>>, Leave),
          Bye("ok")),
        If(AllOf({Has(4031915, 1), Has(4031914, 1), Room(4031909, 1)}),
          Do(<<Give(4031909, 1), Take(4031915, 1), Take(4031914, 1)>>, Leave),
        Bye("ok"))))))))))))>>)

n9201052 == Talk(BackOrLeave, <<
    Keep("status=0", Say("simple")),
    When("status=0", Keep("status=1", Say("simple")))
    \cup When("status=1",
        If(Chose(0),
          If(AllOf({Has(4031751, 1), Has(4031753, 1), Has(4031754, 1)}),
            Do(<<Take(4031751, 1), Take(4031753, 1), Take(4031754, 1), Give(4031829, 1)>>, Leave),
          Bye("ok")),
        If(Chose(1),
          If(AllOf({Has(4031753, 1), Has(4031752, 1)}),
            Do(<<Take(4031752, 1), Take(4031753, 1), Give(4031828, 1)>>, Leave),
          Bye("ok")),
        If(Chose(2),
          If(AllOf({Has(4031752, 1), Has(4031750, 1), Has(4031754, 1)}),
            Do(<<Take(4031752, 1), Take(4031750, 1), Take(4031754, 1), Give(4031827, 1)>>, Leave),
          Bye("ok")),
        If(AllOf({Has(4031750, 1), Has(4031751, 1)}),
          Do(<<Take(4031751, 1), Take(4031750, 1), Give(4031826, 1)>>, Leave),
        Bye("ok"))))))>>)

n9201054 == Once(Bye("ok"))

n9201056 == Talk(StayUnlessEnd, <<
    On("open", Say("yesNo")) \cup On("decline", Bye("ok")),
    If(InMap(682000000), If(Mesos(15000), Do(<<Pay(15000), Warp(600000000)>>, Leave), Bye("ok")),
    If(Mesos(15000), Do(<<Pay(15000), Warp(682000000)>>, Leave), Bye("ok")))>>)

n9201057 == But(Talk(BackOrLeave, <<
    Say("yesNo"),
    If(InMap(103000100), If(Mesos(10000), Do(<<Pay(10000), Warp(600010001)>>, Leave), Bye("ok")),
    If(Mesos(10000), Do(<<Pay(10000), Warp(103000100)>>, Leave), Bye("ok")))>>),
    At(0, "decline", Bye("ok")))

n9201063 == Talk(BackOrLeave, <<
    Say("simple"),
    If(Chose(1),
      If(AnyOf({Fact("getGender() = 0"), Fact("getGender() = 1")}),
        Keep("beauty=1; hairnew=[style]", Say("yesNo")),
      Keep("beauty=1; hairnew=[]", Say("yesNo"))),
    Keep("beauty=2; hairnew=[]", Say("yesNo"))),
    When("beauty=1; hairnew=[style]",
        If(Has(5150030, 1), Do(<<Close, Take(5150030, 1), Call("setHair")>>, Say("ok")),
        Bye("ok")))
    \cup When("beauty=1; hairnew=[]",
        If(Has(5150030, 1), Do(<<Close, Take(5150030, 1), Call("setHair")>>, Say("ok")),
        Bye("ok")))
    \cup When("beauty=2; hairnew=[]",
        If(Has(5151025, 1), Do(<<Close, Take(5151025, 1), Call("setHair")>>, Say("ok")),
        Bye("ok")))>>)

n9201064 == Talk(BackOrLeave, <<
    Say("simple"), If(Chose(1), Keep("beauty=1", Say("style")), Keep("beauty=2", Say("style"))),
    When("beauty=1",
        If(Has(5150031, 1), Do(<<Close, Take(5150031, 1), Call("setHair")>>, Say("ok")),
        Bye("ok")))
    \cup When("beauty=2",
        If(Has(5151026, 1), Do(<<Close, Take(5151026, 1), Call("setHair")>>, Say("ok")),
        If(Has(5420001, 1), Do(<<Close, Call("setHair")>>, Say("ok")), Bye("ok"))))>>)

n9201065 == Talk(BackOrLeave, <<
    Say("simple"), Say("style"),
    If(Has(5153009, 1), Do(<<Take(5153009, 1), Call("setSkin")>>, Bye("ok")), Bye("ok"))>>)

n9201068 == Once(Bye("ok"))

n9201069 == Talk(BackOrLeave, <<
    Say("simple"), Say("style"),
    If(Has(5152034, 1), Do(<<Take(5152034, 1), Call("setFace")>>, Bye("ok")), Bye("ok"))>>)

n9201070 == Talk(BackOrLeave, <<
    Say("simple"),
    If(AnyOf({Fact("getGender() = 0"), Fact("getGender() = 1")}),
      Keep("facenew=[style]", Say("yesNo")),
    Keep("facenew=[]", Say("yesNo"))),
    If(Has(5152033, 1), Do(<<Take(5152033, 1), Call("setFace")>>, Bye("ok")), Bye("ok"))>>)

n9201071 == Once(Bye("ok"))
n9201072 == Once(Bye("ok"))
n9201073 == Once(Bye("ok"))
n9201079 == Once(Do(<<Warp(682000100)>>, Leave))
n9201081 == Once(Do(<<Call("getStorage().sendStorage 9201081")>>, Leave))
n9201082 == Once(Bye("ok"))

n9201083 == Talk(BackOrLeave, <<
    Say("simple"),
    If(Chose(0),
      If(Has(4031761, 1), Do(<<Take(4031761, 1), Give(1302079, 1)>>, Leave), Bye("ok")),
    If(Chose(1),
      If(Has(4031761, 1), Do(<<Take(4031761, 1), Give(1322059, 1)>>, Leave), Bye("ok")),
    If(Chose(2),
      If(Has(4031761, 1), Do(<<Take(4031761, 1), Give(1412032, 1)>>, Leave), Bye("ok")),
    If(Chose(3),
      If(Has(4031761, 1), Do(<<Take(4031761, 1), Give(1442060, 1)>>, Leave), Bye("ok")),
    If(Chose(4),
      If(Has(4031761, 1), Do(<<Take(4031761, 1), Give(1432045, 1)>>, Leave), Bye("ok")),
    If(Chose(5),
      If(Has(4031761, 1), Do(<<Take(4031761, 1), Give(1382053, 1)>>, Leave), Bye("ok")),
    If(Chose(6),
      If(Has(4031761, 1), Do(<<Take(4031761, 1), Give(1452052, 1)>>, Leave), Bye("ok")),
    If(Chose(7),
      If(Has(4031761, 1), Do(<<Take(4031761, 1), Give(1462046, 1)>>, Leave), Bye("ok")),
    If(Chose(8),
      If(Has(4031761, 1), Do(<<Take(4031761, 1), Give(1472062, 1)>>, Leave), Bye("ok")),
    If(Chose(9),
      If(Has(4031761, 1), Do(<<Take(4031761, 1), Give(1332064, 1)>>, Leave), Bye("ok")),
    If(Has(4031761, 1), Do(<<Take(4031761, 1), Give(1332065, 1)>>, Leave), Bye("ok"))))))))))))>>)

n9201084 == Once(Leave)
n9201088 == Once(Do(<<Call("openShopNPC 9201088")>>, Leave))
n9201093 == Once(Bye("ok"))

n9201094 == Talk(BackOrLeave, <<
    Say("simple"),
    If(Chose(0),
      If(AllOf({Has(1452054, 1), Has(4031936, 1), Has(4031937, 10), Has(4005001, 5)}),
        Do(<<Take(4031936, 1), Take(4031937, 10), Take(4005001, 5), Take(1452054, 1),
             Give(1452055, 1)>>, Leave),
      Bye("ok")),
    If(Chose(1),
      If(AllOf({Has(1452055, 1), Has(4031936, 2), Has(4031937, 50), Has(4005001, 15)}),
        Do(<<Take(4031936, 2), Take(4031937, 50), Take(4005001, 15), Take(1452055, 1),
             Give(1452056, 1)>>, Leave),
      Bye("ok")),
    If(Chose(2),
      If(AllOf({Has(1472065, 1), Has(4031936, 1), Has(4031937, 10), Has(4005001, 5)}),
        Do(<<Take(4031936, 1), Take(4031937, 10), Take(4005001, 5), Take(1472065, 1),
             Give(1472066, 1)>>, Leave),
      Bye("ok")),
    If(Chose(3),
      If(AllOf({Has(1472066, 1), Has(4031936, 2), Has(4031937, 50), Has(4005001, 15)}),
        Do(<<Take(4031936, 2), Take(4031937, 50), Take(4005001, 15), Take(1472066, 1),
             Give(1472067, 1)>>, Leave),
      Bye("ok")),
    If(Chose(4),
      If(AllOf({Has(1332067, 1), Has(4031936, 1), Has(4031937, 10), Has(4005001, 5)}),
        Do(<<Take(4031936, 1), Take(4031937, 10), Take(4005001, 5), Take(1332067, 1),
             Give(1332068, 1)>>, Leave),
      Bye("ok")),
    If(Chose(5),
      If(AllOf({Has(1332068, 1), Has(4031936, 2), Has(4031937, 50), Has(4005001, 15)}),
        Do(<<Take(4031936, 2), Take(4031937, 50), Take(4005001, 15), Take(1332068, 1),
             Give(1332069, 1)>>, Leave),
      Bye("ok")),
    If(Chose(6),
      If(AllOf({Has(1332070, 1), Has(4031936, 1), Has(4031937, 10), Has(4005001, 5)}),
        Do(<<Take(4031936, 1), Take(4031937, 10), Take(4005001, 5), Take(1332070, 1),
             Give(1332071, 1)>>, Leave),
      Bye("ok")),
    If(Chose(7),
      If(AllOf({Has(1332071, 1), Has(4031936, 2), Has(4031937, 50), Has(4005001, 15)}),
        Do(<<Take(4031936, 2), Take(4031937, 50), Take(4005001, 15), Take(1332071, 1),
             Give(1332072, 1)>>, Leave),
      Bye("ok")),
    If(Chose(8),
      If(AllOf({Has(1462047, 1), Has(4031936, 1), Has(4031937, 10), Has(4005001, 5)}),
        Do(<<Take(4031936, 1), Take(4031937, 10), Take(4005001, 5), Take(1462047, 1),
             Give(1462048, 1)>>, Leave),
      Bye("ok")),
    If(Chose(9),
      If(AllOf({Has(1462048, 1), Has(4031936, 2), Has(4031937, 50), Has(4005001, 15)}),
        Do(<<Take(4031936, 2), Take(4031937, 50), Take(4005001, 15), Take(1462048, 1),
             Give(1462049, 1)>>, Leave),
      Bye("ok")),
    If(Chose(10),
      If(AllOf({Has(1382054, 1), Has(4031936, 1), Has(4031937, 10), Has(4005001, 5)}),
        Do(<<Take(4031936, 1), Take(4031937, 10), Take(4005001, 5), Take(1382054, 1),
             Give(1382055, 1)>>, Leave),
      Bye("ok")),
    If(AllOf({Has(1382055, 1), Has(4031936, 2), Has(4031937, 50), Has(4005001, 15)}),
      Do(<<Take(4031936, 2), Take(4031937, 50), Take(4005001, 15), Take(1382055, 1),
           Give(1382056, 1)>>, Leave),
    Bye("ok")))))))))))))>>)

n9201095 == Talk(BackOrLeave, <<
    If(Has(3992040, 1), Say("simple"), Bye("ok")),
    If(Chose(0),
      If(AllOf({Has(4021008, 100), Has(4032015, 1), Has(4032016, 1), Has(4032017, 1),
                Has(4032005, 30)}),
        Do(<<Take(4021008, 100), Take(4032015, 1), Take(4032016, 1), Take(4032017, 1),
             Take(4032005, 30), Give(2070018, 1)>>, Leave),
      Bye("ok")),
    If(Chose(1),
      If(AllOf({Has(4032012, 30), Has(4032004, 400), Has(4032017, 1), Has(4032016, 1),
                Has(4032005, 10), Has(4005001, 4)}),
        Do(<<Take(4032012, 30), Take(4032004, 400), Take(4032017, 1), Take(4032016, 1),
             Take(4032005, 10), Take(4005001, 4), Give(1382060, 1)>>, Leave),
      Bye("ok")),
    If(Chose(2),
      If(AllOf({Has(4032012, 20), Has(4032004, 500), Has(4032017, 1), Has(4032015, 1),
                Has(4032005, 40), Has(4005000, 4)}),
        Do(<<Take(4032012, 20), Take(4032004, 500), Take(4032017, 1), Take(4032015, 1),
             Take(4032005, 40), Take(4005000, 4), Give(1442068, 1)>>, Leave),
      Bye("ok")),
    If(Chose(3),
      If(AllOf({Has(4032012, 10), Has(4032004, 300), Has(4032016, 1), Has(4032015, 1),
                Has(4032005, 75), Has(4005002, 4)}),
        Do(<<Take(4032012, 10), Take(4032004, 300), Take(4032016, 1), Take(4032015, 1),
             Take(4032005, 75), Take(4005002, 4), Give(1452060, 1)>>, Leave),
      Bye("ok")),
    If(Chose(4),
      If(AllOf({Has(4021008, 20), Has(4005000, 5), Has(1332077, 1), Has(4032016, 1)}),
        Do(<<Take(4021008, 20), Take(4005000, 5), Take(1332077, 1), Take(4032016, 1),
             Give(1332079, 1)>>, Leave),
      Bye("ok")),
    If(Chose(5),
      If(AllOf({Has(4021008, 30), Has(4005000, 5), Has(1332077, 1), Has(4032017, 1)}),
        Do(<<Take(4021008, 30), Take(4005000, 5), Take(1332077, 1), Take(4032017, 1),
             Give(1332080, 1)>>, Leave),
      Bye("ok")),
    If(Chose(6),
      If(AllOf({Has(4021008, 20), Has(4005003, 5), Has(1332077, 1), Has(4032015, 1)}),
        Do(<<Take(4021008, 20), Take(4005003, 5), Take(1332077, 1), Take(4032015, 1),
             Give(1332078, 1)>>, Leave),
      Bye("ok")),
    If(Chose(7),
      If(AllOf({Has(4021008, 20), Has(4005001, 5), Has(1472072, 1), Has(4032016, 1)}),
        Do(<<Take(4021008, 20), Take(4005001, 5), Take(1472072, 1), Take(4032016, 1),
             Give(1472074, 1)>>, Leave),
      Bye("ok")),
    If(Chose(8),
      If(AllOf({Has(4021008, 30), Has(4005000, 5), Has(1472072, 1), Has(4032017, 1)}),
        Do(<<Take(4021008, 30), Take(4005000, 5), Take(1472072, 1), Take(4032017, 1),
             Give(1472075, 1)>>, Leave),
      Bye("ok")),
    If(Chose(9),
      If(AllOf({Has(4021008, 30), Has(4005002, 10), Has(1472072, 1), Has(4032015, 1)}),
        Do(<<Take(4021008, 30), Take(4005002, 10), Take(1472072, 1), Take(4032015, 1),
             Give(1472073, 1)>>, Leave),
      Bye("ok")),
    If(Chose(10),
      If(AllOf({Has(4021008, 30), Has(4005002, 5), Has(1462052, 1), Has(4032016, 1)}),
        Do(<<Take(4021008, 30), Take(4005002, 5), Take(1462052, 1), Take(4032016, 1),
             Give(1462054, 1)>>, Leave),
      Bye("ok")),
    If(Chose(11),
      If(AllOf({Has(4021008, 30), Has(4005002, 5), Has(1462052, 1), Has(4032017, 1)}),
        Do(<<Take(4021008, 30), Take(4005002, 5), Take(1462052, 1), Take(4032017, 1),
             Give(1462055, 1)>>, Leave),
      Bye("ok")),
    If(Chose(12),
      If(AllOf({Has(4021008, 20), Has(4005004, 1), Has(1462052, 1), Has(4032015, 1)}),
        Do(<<Take(4021008, 20), Take(4005004, 1), Take(1462052, 1), Take(4032015, 1),
             Give(1462053, 1)>>, Leave),
      Bye("ok")),
    If(Chose(13),
      If(AllOf({Has(4021008, 30), Has(4005000, 10), Has(1402048, 1), Has(4032016, 1)}),
        Do(<<Take(4021008, 30), Take(4005000, 10), Take(1402048, 1), Take(4032016, 1),
             Give(1402050, 1)>>, Leave),
      Bye("ok")),
    If(Chose(14),
      If(AllOf({Has(4021008, 30), Has(4005001, 10), Has(1402048, 1), Has(4032017, 1)}),
        Do(<<Take(4021008, 30), Take(4005001, 10), Take(1402048, 1), Take(4032017, 1),
             Give(1402051, 1)>>, Leave),
      Bye("ok")),
    If(AllOf({Has(4021008, 30), Has(4005002, 5), Has(1402048, 1), Has(4032015, 1)}),
      Do(<<Take(4021008, 30), Take(4005002, 5), Take(1402048, 1), Take(4032015, 1),
           Give(1402049, 1)>>, Leave),
    Bye("ok")))))))))))))))))>>)

n9201098 ==
  Once(If(Completed(8223),
         If(Has(3992041, 1), Bye("ok"),
         If(Room(3992041, 1), Do(<<Page("ok"), Give(3992041, 1)>>, Leave), Bye("ok"))),
       Bye("ok")))

n9201099 == Once(If(Completed(8224), Do(<<Call("openShopNPC 9201099")>>, Leave), Bye("ok")))
n9201100 == Once(Bye("ok"))

n9201101 == Talk(BackOrLeave, <<
    Say("yesNo"),
    If(AllOf({Has(4032022, 1), Has(4000391, 50), Has(4032023, 1), Has(4032024, 1),
              Has(4032025, 1)}),
      Do(<<Take(4032022, 1), Take(4000391, 50), Take(4032023, 1), Take(4032024, 1),
           Take(4032025, 1), GiveThe("itcg[floor((random * 8))]")>>, Leave),
    Bye("ok"))>>)

n9201102 == Talk(BackOrLeave, <<
    Keep("status=0", Say("simple")),
    When("status=0", Keep("status=1", Say("simple")))
    \cup When("status=1",
        If(Chose(11),
          If(AllOf({Has(4032027, 15), Has(4000399, 10), Has(4032028, 8), Has(4032029, 5),
                    Has(1302088, 1)}),
            Do(<<Take(4032027, 15), Take(4000399, 10), Take(4032029, 5), Take(4032028, 8),
                 Take(1302088, 1), Give(1302089, 1)>>, Leave),
          Bye("ok")),
        If(Chose(20),
          If(AllOf({Has(4032027, 15), Has(4000399, 10), Has(4032028, 8), Has(4032029, 5),
                    Has(1302089, 1)}),
            Do(<<Take(4032027, 15), Take(4000399, 10), Take(4032029, 5), Take(4032028, 8),
                 Take(1302089, 1), Give(1302090, 1)>>, Leave),
          Bye("ok")),
        If(Chose(21),
          If(AllOf({Has(4032027, 15), Has(4000399, 10), Has(4032028, 8), Has(4032029, 5),
                    Has(1302090, 1)}),
            Do(<<Take(4032027, 15), Take(4000399, 10), Take(4032029, 5), Take(4032028, 8),
                 Take(1302090, 1), Give(1302091, 1)>>, Leave),
          Bye("ok")),
        If(Chose(22),
          If(AllOf({Has(4032027, 15), Has(4000399, 10), Has(4032028, 8), Has(4032029, 5),
                    Has(1302091, 1)}),
            Do(<<Take(4032027, 15), Take(4000399, 10), Take(4032029, 5), Take(4032028, 8),
                 Take(1302091, 1), Give(1302092, 1)>>, Leave),
          Bye("ok")),
        If(Chose(23),
          If(AllOf({Has(4032027, 15), Has(4000399, 10), Has(4032028, 8), Has(4032029, 5),
                    Has(1302092, 1)}),
            Do(<<Take(4032027, 15), Take(4000399, 10), Take(4032029, 5), Take(4032028, 8),
                 Take(1302092, 1), Give(1302093, 1)>>, Leave),
          Bye("ok")),
        If(AllOf({Has(4032027, 15), Has(4000399, 10), Has(4032028, 8), Has(4032029, 5),
                  Has(1302093, 1)}),
          Do(<<Take(4032027, 15), Take(4000399, 10), Take(4032029, 5), Take(4032028, 8),
               Take(1302093, 1), Give(1302094, 1)>>, Leave),
        Bye("ok"))))))))>>)

n9201103 == Once(Bye("ok"))
n9201104 == Once(Bye("ok"))
n9201105 == Once(Bye("ok"))

n9201106 == Talk(BackOrLeave, <<
    Say("simple"),
    If(Chose(0),
      If(AllOf({Has(1102193, 1), Has(4031900, 1), Has(4005004, 50), Has(4031758, 1),
                Has(4031915, 1), Has(4032133, 1)}),
        Do(<<Take(1102193, 1), Take(4031900, 1), Take(4005004, 50), Take(4031915, 1),
             Take(4031758, 1), Take(4032133, 1), Give(1102194, 1)>>, Leave),
      Bye("ok")),
    If(Chose(1),
      If(AllOf({Has(1302106, 1), Has(4131000, 1), Has(4130002, 1), Has(4021008, 50),
                Has(4032133, 1)}),
        Do(<<Take(1302106, 1), Take(4131000, 1), Take(4130002, 1), Take(4021008, 50),
             Take(4032133, 1), Give(1302107, 1)>>, Leave),
      Bye("ok")),
    If(Chose(2),
      If(AllOf({Has(1102191, 1), Has(4000081, 50), Has(4000080, 10), Has(4031916, 1),
                Has(4000057, 10)}),
        Fail,
      Bye("ok")),
    If(Chose(3),
      If(AllOf({Has(1002856, 1), Has(4000391, 10), Has(4000376, 5), Has(4005000, 1),
                Has(4011004, 10), Has(4032133, 1)}),
        Do(<<Take(1002856, 1), Take(4000391, 10), Take(4000376, 5), Take(4005000, 1),
             Take(4011004, 10), Take(4032133, 1), Give(1002857, 1)>>, Leave),
      Bye("ok")),
    If(Has(4032134, 1), Do(<<GiveThe("itcg[floor((random * 9))]"), Take(4032134, 1)>>, Leave),
    Bye("ok"))))))>>)

n9201107 ==
  Once(If(AnyOf({InMap(610030500), InMap(610030000)}), Bye("ok"),
       If(InMap(610030510),
         If(AllOf({Fact("getMap().countMonsters() = 0"),
                   Fact("((getEventInstance().getIntProperty('glpq5.."), Room(4001259, 1)}),
           Do(<<Give(4001259, 1), Page("ok"),
                Call("getEventInstance().setIntProperty glpq5_room")>>, Leave),
         Bye("ok")),
       Idle)))

n9201108 ==
  Once(If(AnyOf({InMap(610030500), InMap(610030000)}), Bye("ok"),
       If(InMap(610030540),
         If(AllOf({Fact("getMap().countMonsters() = 0"),
                   Fact("((getEventInstance().getIntProperty('glpq5.."), Room(4001258, 1)}),
           Do(<<Give(4001258, 1), Page("ok"),
                Call("getEventInstance().setIntProperty glpq5_room")>>, Leave),
         Bye("ok")),
       Idle)))

n9201109 ==
  Once(If(AnyOf({InMap(610030500), InMap(610030000)}), Bye("ok"),
       If(InMap(610030521),
         If(AllOf({Fact("getMap().countMonsters() = 0"),
                   Fact("((getEventInstance().getIntProperty('glpq5.."), Room(4001257, 1)}),
           Do(<<Give(4001257, 1), Page("ok"),
                Call("getEventInstance().setIntProperty glpq5_room")>>, Leave),
         Bye("ok")),
       Idle)))

n9201110 ==
  Once(If(AnyOf({InMap(610030500), InMap(610030000)}), Bye("ok"),
       If(InMap(610030530),
         If(AllOf({Fact("isAllReactorState(6108004,1)"),
                   Fact("((getEventInstance().getIntProperty('glpq5.."), Room(4001256, 1)}),
           Do(<<Give(4001256, 1), Page("ok"),
                Call("getEventInstance().setIntProperty glpq5_room")>>, Leave),
         Bye("ok")),
       Leave)))

n9201111 == Once(If(AnyOf({InMap(610030500), InMap(610030000)}), Bye("ok"), Idle))

n9201112 == Talk(BackOrLeave, <<
    If(Fact("getEventInstance() = null"), Bye("next"),
    If(AnyOf({InMap(610030100), InMap(610030200), InMap(610030300), InMap(610030400),
              InMap(610030500)}),
      Say("next"),
    If(InMap(610030700), Bye("next"), Idle))),
    If(Fact("getEventInstance() = null"), Bye("next"),
    If(InMap(610030100), Say("next"),
    If(AnyOf({InMap(610030200), InMap(610030300), InMap(610030400)}), Bye("next"),
    If(InMap(610030500), Say("next"), If(InMap(610030700), Bye("next"), Idle))))),
    If(AnyOf({Fact("getEventInstance() = null"), InMap(610030100)}), Bye("next"),
    If(AnyOf({InMap(610030200), InMap(610030300), InMap(610030400)}), Idle,
    If(InMap(610030500), Say("next"), If(InMap(610030700), Bye("next"), Idle)))),
    If(Fact("getEventInstance() = null"), Bye("next"),
    If(AnyOf({InMap(610030100), InMap(610030200), InMap(610030300), InMap(610030400)}), Idle,
    If(AnyOf({InMap(610030500), InMap(610030700)}), Bye("next"), Idle)))>>)

n9201113 == Opens(
        If(AllOf({Fact("getLevel() < MapleExpeditionType.CWKPQ.get.."),
                  Fact("getLevel() > MapleExpeditionType.CWKPQ.get..")}),
          Bye("ok"),
        If(Fact("getExpedition(MapleExpeditionType.CWKPQ) =.."), To(1, Say("simple")),
        If(Fact("getExpedition(MapleExpeditionType.CWKPQ).i.."),
          If(Fact("getExpedition(MapleExpeditionType.CWKPQ).i..2"), Bye("ok"),
          To(2, Say("simple"))),
        If(Fact("getExpedition(MapleExpeditionType.CWKPQ).i..3"),
          If(Fact("getExpedition(MapleExpeditionType.CWKPQ).c.."), Bye("ok"),
          Do(<<Call("getExpedition(MapleExpeditionType.CWKPQ).a..")>>, Bye("ok"))),
        If(Fact("getExpedition(MapleExpeditionType.CWKPQ).i..2"),
          If(Fact("getExpedition(MapleExpeditionType.CWKPQ).c.."),
            Do(<<Call("getEventManager('CWKPQ').getInstance('CWKP..")>>, Leave),
          Bye("ok")),
        To(0, Idle)))))),
    Talk(Rule(0, -1, Gone, Gone), <<
    Idle,
    If(AllOf({Chose(1), Fact("getExpedition(MapleExpeditionType.CWKPQ) =..")}),
      Do(<<Call("createExpedition MapleExpeditionType.CWKPQ")>>, Bye("ok")),
    Bye("ok")),
    If(Chose(1),
      If(AnyOf({Fact("getExpedition(MapleExpeditionType.CWKPQ) =.."),
                Fact("getExpedition(MapleExpeditionType.CWKPQ).g..")}),
        Bye("ok"),
      To(6, Say("simple"))),
    If(Chose(2),
      If(Fact("getExpedition(MapleExpeditionType.CWKPQ).g..2"), Bye("ok"), To(4, Say("ok"))),
    Do(<<Call("endExpedition")>>, Bye("ok")))), Idle,
    If(Fact("getEventManager('CWKPQ') = null"), Bye("ok"),
    If(Fact("getEventManager('CWKPQ').startInstance(get.."),
      Do(<<Call("getEventManager('CWKPQ').setProperty leader"),
           Call("getEventManager('CWKPQ').setProperty channel"),
           Call("getEventManager('CWKPQ').startInstance")>>, Leave),
    Do(<<Call("getEventManager('CWKPQ').setProperty leader"),
         Call("getEventManager('CWKPQ').setProperty channel"),
         Call("getEventManager('CWKPQ').startInstance")>>, Bye("ok")))), Idle,
    Do(<<Call("getExpedition(MapleExpeditionType.CWKPQ).ban")>>, Bye("ok"))>>))

n9201114 == Once(If(Has(3992041, 1), Do(<<Warp(610030020)>>, Leave), Leave))

n9201123 == But(Talk(Rule(1, -1, -1, 0), <<
    On("open",
        If(AllOf({Fact("getJob() = 'BEGINNER'"), Level(10), Fact("canGetFirstJob(1)")}),
          Say("yesNo"),
        Bye("ok")))
    \cup On("end", Bye("ok")), Do(<<Warp(102000003)>>, Leave)>>),
    At(0, "decline", Bye("ok")))

n9201124 == But(Talk(Rule(1, -1, -1, 0), <<
    On("open",
        If(AllOf({Fact("getJob() = 'BEGINNER'"), Level(10), Fact("canGetFirstJob(3)")}),
          Say("yesNo"),
        Bye("ok")))
    \cup On("end", Bye("ok")), Do(<<Warp(100000201)>>, Leave)>>),
    At(0, "decline", Bye("ok")))

n9201125 == But(Talk(Rule(1, -1, -1, 0), <<
    On("open",
        If(AllOf({Fact("getJob() = 'BEGINNER'"), Level(8), Fact("canGetFirstJob(2)")}),
          Say("yesNo"),
        Bye("ok")))
    \cup On("end", Bye("ok")), Do(<<Warp(101000003)>>, Leave)>>),
    At(0, "decline", Bye("ok")))

n9201126 == But(Talk(Rule(1, -1, -1, 0), <<
    On("open",
        If(AllOf({Fact("getJob() = 'BEGINNER'"), Level(10), Fact("canGetFirstJob(4)")}),
          Say("yesNo"),
        Bye("ok")))
    \cup On("end", Bye("ok")), Do(<<Warp(103000003)>>, Leave)>>),
    At(0, "decline", Bye("ok")))

n9201127 == But(Talk(Rule(1, -1, -1, 0), <<
    On("open",
        If(AllOf({Fact("getJob() = 'BEGINNER'"), Level(10), Fact("canGetFirstJob(5)")}),
          Say("yesNo"),
        Bye("ok")))
    \cup On("end", Bye("ok")), Do(<<Warp(120000101)>>, Leave)>>),
    At(0, "decline", Bye("ok")))

n9201128 == Talk(BackOrLeave, <<
    If(AllOf({Started(28179), Has(4032491, 1)}), Say("yesNo"), Bye("ok")),
    Do(<<Given(Has(4001341, 1), <<Take(4001341, 1)>>),
         Given(Has(4032478, 1), <<Take(4032478, 1)>>), Warp(677000004)>>, Leave)>>)

n9201129 == Talk(BackOrLeave, <<
    If(AllOf({Started(28198), Has(4032495, 1)}), Say("yesNo"), Bye("ok")),
    Do(<<Warp(677000000)>>, Leave)>>)

n9201130 == Talk(BackOrLeave, <<
    If(AllOf({Started(28219), Has(4032493, 1)}), Say("yesNo"), Bye("ok")),
    Do(<<Given(Has(4032485, 1), <<Take(4032485, 1)>>),
         Given(Has(4001355, 1), <<Take(4001355, 1)>>), Warp(677000008)>>, Leave)>>)

n9201131 == Talk(BackOrLeave, <<
    If(AllOf({Started(28238), Has(4032492, 1)}), Say("yesNo"), Bye("ok")),
    Do(<<Given(Has(4032481, 1), <<Take(4032481, 1)>>),
         Given(Has(4032482, 1), <<Take(4032482, 1)>>),
         Given(Has(4032483, 1), <<Take(4032483, 1)>>), Warp(677000002)>>, Leave)>>)

n9201132 == Talk(BackOrLeave, <<
    If(AllOf({Started(28256), Has(4032494, 1)}), Say("yesNo"), Bye("ok")),
    Do(<<Given(Has(4001362, 1), <<TakeThe("4001362,getItemQuantity(4001362)")>>),
         Given(Has(4001363, 1), <<TakeThe("4001363,getItemQuantity(4001363)")>>),
         Given(Has(4032486, 1), <<Take(4032486, 1)>>),
         Given(Has(4032488, 1), <<Take(4032488, 1)>>),
         Given(Has(4032489, 1), <<Take(4032489, 1)>>),
         Given(Has(4220153, 1), <<Take(4220153, 1)>>), Warp(677000006)>>, Leave)>>)

n9201133 == Talk(BackOrLeave, <<
    If(Fact("getMapId() >= 677000010"),
      If(Fact("getMapId() >= 677000013"),
        If(AllOf({Started(28283), Fact("haveItemEquipped(1003036)")}),
          Keep("map=677000010", Say("yesNo")),
        Bye("ok")),
      If(InMap(677000011), Keep("map=677000012", Say("yesNo")),
      Keep("map=105050400", Say("yesNo")))),
    If(AllOf({Started(28283), Fact("haveItemEquipped(1003036)")}),
      Keep("map=677000010", Say("yesNo")),
    Bye("ok"))),
    When("map=677000010", Do(<<Warp(677000010)>>, Leave))
    \cup When("map=677000012", Do(<<Warp(677000012)>>, Leave))
    \cup When("map=105050400", Do(<<Warp(105050400)>>, Leave))>>)

n9201134 == Talk(BackOrLeave, <<
    If(Fact("getEventInstance().isEventCleared()"), Keep("page=next", Say("next")),
    Keep("page=yesNo", Say("yesNo"))),
    If(Fact("getEventInstance().isEventCleared()"),
      If(Fact("getEventInstance().giveEventReward(getPlay.."),
        Do(<<Call("getEventInstance().giveEventReward"), Warp(551030100)>>, Leave),
      Do(<<Call("getEventInstance().giveEventReward")>>, Bye("next"))),
    Do(<<Warp(551030100)>>, Leave))>>)

n9201142 == Once(Bye("ok"))
n9201143 == Once(Bye("next"))

n9209000 == Talk(BackOrLeave, <<
    If(Fact("isCygnus()"), Bye("ok"),
    If(Fact("(getJob().getId() % 10) >= 2"),
      If(Fact("getAvailableSkillBooks().length = 0"),
        If(Fact("getAvailableMasteryBooks().length = 0"), Bye("ok"),
        Keep("selected=2", Say("next"))),
      If(Fact("getAvailableSkillBooks().length >= 1"),
        If(Fact("getAvailableMasteryBooks().length >= 1"), Keep("selected=0", Say("simple")),
        Keep("selected=1", Say("next"))),
      Keep("selected=2", Say("next")))),
    Bye("ok"))),
    When("selected=2", Keep("selected=2", Say("simple")))
    \cup When("selected=0",
        If(Chose(1), Keep("selected=selection", Say("simple")),
        Keep("selected=2", Say("simple"))))
    \cup When("selected=1", Keep("selected=selection", Say("simple"))), Bye("next")>>)

n9209001 == Once(Bye("ok"))
n9209100 == Once(Idle)

n9220004 == But(Talk(BackUnlessEnd, <<
    Say("simple"),
    If(Chose(0),
      If(Fact("getMap().getMonsters().size() >= 2"), Bye("ok"),
      Do(<<Call("getMap().spawnMonsterOnGroundBelow 9500317..")>>, Leave)),
    If(Chose(1),
      If(Fact("getMap().getMonsters().size() >= 7"), Bye("ok"),
      Do(<<Call("getMap().spawnMonsterOnGroundBelow 9500320..")>>, Leave)),
    Bye("ok")))>>),
    At(0, "decline", Bye("ok")))

n9220018 == Talk(BackOrLeave, <<
    If(Fact("getEventManager('TreasurePQ') = null"), Bye("ok"),
    If(Fact("isUsingOldPqNpcStyle()"),
      If(Fact("getParty() = null"), Bye("ok"),
      If(AllOf({Fact("isLeader()"), Fact("getEventManager('TreasurePQ').getEligibleP..")}),
        If(Fact("getEventManager('TreasurePQ').startInstanc.."),
          Do(<<Call("getEventManager('TreasurePQ').startInstanc..")>>, Leave),
        Do(<<Call("getEventManager('TreasurePQ').startInstanc..")>>, Bye("ok"))),
      Bye("ok"))),
    Say("simple"))),
    If(Chose(0),
      If(Fact("getParty() = null"), Bye("ok"),
      If(AllOf({Fact("isLeader()"), Fact("getEventManager('TreasurePQ').getEligibleP..")}),
        If(Fact("getEventManager('TreasurePQ').startInstanc.."),
          Do(<<Call("getEventManager('TreasurePQ').startInstanc..")>>, Leave),
        Do(<<Call("getEventManager('TreasurePQ').startInstanc..")>>, Bye("ok"))),
      Bye("ok"))),
    Bye("ok"))>>)

n9220019 == Talk(BackOrLeave, <<
    If(AnyOf({InMap(674030100), InMap(674030300)}), Bye("next"), Say("yesNo")),
    Do(<<Warp(674030100)>>, Leave)>>)

n9220020 ==
  Once(If(Fact("isEventLeader()"),
         If(Fact("getEventInstance().getIntProperty('statusS..11"), Bye("next"),
         If(Has(4032118, 15),
           Do(<<Take(4032118, 15), Call("getEventInstance().setIntProperty statusSt..2"),
                Call("getEventInstance().giveEventPlayersStageRe..")>>, Bye("next")),
         Bye("next"))),
       Bye("next")))

n9250045 == Once(Leave)

n9270017 == Talk(StayUnlessEnd, <<
    On("open", Say("yesNo")) \cup On("decline", Bye("ok")), Say("next"),
    Do(<<Warp(103000000)>>, Leave)>>)

n9270018 == But(Talk(BackOrLeave, <<
    If(InMap(540010001), Say("yesNo"),
    If(AnyOf({InMap(540010002), InMap(540010101)}), Bye("ok"), Idle)),
    Do(<<Warp(540010000)>>, Bye("ok"))>>),
    At(0, "decline", Bye("ok")))

n9270023 == Talk(BackOrLeave, <<
    Say("simple"),
    If(Has(5152037, 1),
      If(AnyOf({Fact("getGender() = 0"), Fact("getGender() = 1")}),
        Keep("facenew=[style]", Say("yesNo")),
      Keep("facenew=[]", Say("yesNo"))),
    Bye("ok")), Do(<<Take(5152037, 1), Call("setFace")>>, Bye("ok"))>>)

n9270024 == Talk(BackOrLeave, <<
    Say("simple"), Say("style"),
    If(Has(5152038, 1), Do(<<Take(5152038, 1), Call("setFace")>>, Bye("ok")), Bye("ok"))>>)

n9270025 == Talk(BackOrLeave, <<
    Say("simple"), If(Has(5153010, 1), Say("style"), Bye("ok")),
    Do(<<Take(5153010, 1), Call("setSkin selection")>>, Bye("ok"))>>)

n9270031 == Once(Bye("ok"))

n9270033 == Talk(BackOrLeave, <<
    Say("yesNo"),
    If(Fact("getEventInstance().isEventCleared()"),
      If(Fact("getEventInstance().giveEventReward(getPlay.."),
        Do(<<Call("getEventInstance().giveEventReward"), Warp(541010110)>>, Leave),
      Do(<<Call("getEventInstance().giveEventReward")>>, Bye("ok"))),
    Do(<<Warp(541010110)>>, Leave))>>)

n9270038 == But(Talk(BackOrLeave, <<
    Say("yesNo"), If(Mesos(10000), Do(<<Pay(10000), Warp(103000000)>>, Leave), Bye("ok"))>>),
    At(0, "decline", Bye("ok")))

n9270041 == But(Talk(BackOrLeave, <<
    Say("yesNo"), If(Mesos(10000), Do(<<Pay(10000), Warp(540010000)>>, Leave), Bye("ok"))>>),
    At(0, "decline", Bye("ok")))

n9270042 == Once(Do(<<Call("getStorage().sendStorage 9270042")>>, Leave))

n9270045 == But(Talk(BackOrLeave, <<Say("yesNo"), Do(<<Warp(541020700)>>, Leave)>>),
    At(0, "decline", Idle)
    @@ At(0, "end", Idle))

n9270047 == Opens(
        If(AllOf({Fact("getLevel() < MapleExpeditionType.SCARGA.ge.."),
                  Fact("getLevel() > MapleExpeditionType.SCARGA.ge..")}),
          Bye("ok"),
        If(Fact("getExpedition(MapleExpeditionType.SCARGA).."), To(1, Say("simple")),
        If(Fact("getExpedition(MapleExpeditionType.SCARGA)..4"),
          If(Fact("getExpedition(MapleExpeditionType.SCARGA)..5"), Bye("ok"),
          To(2, Say("simple"))),
        If(Fact("getExpedition(MapleExpeditionType.SCARGA)..6"),
          If(Fact("getExpedition(MapleExpeditionType.SCARGA)..7"), Bye("ok"),
          Do(<<Call("getExpedition(MapleExpeditionType.SCARGA)..2")>>, Bye("ok"))),
        If(Fact("getExpedition(MapleExpeditionType.SCARGA)..5"),
          If(AllOf({Fact("getExpedition(MapleExpeditionType.SCARGA)..7"),
                    Fact("getEventManager('ScargaBattle').getInstanc..")}),
            Do(<<Call("getEventManager('ScargaBattle').getInstanc..")>>, Leave),
          Bye("ok")),
        To(0, Idle)))))),
    Talk(Rule(0, -1, Gone, Gone), <<
    Idle,
    If(AllOf({Chose(1), Has(4032246, 1), Fact("getExpedition(MapleExpeditionType.SCARGA)..")}),
      Do(<<Call("createExpedition MapleExpeditionType.SCARGA")>>, Bye("ok")),
    Bye("ok")),
    If(Chose(1),
      If(AnyOf({Fact("getExpedition(MapleExpeditionType.SCARGA).."),
                Fact("getExpedition(MapleExpeditionType.SCARGA)..2")}),
        Bye("ok"),
      To(6, Say("simple"))),
    If(Chose(2),
      If(Fact("getExpedition(MapleExpeditionType.SCARGA)..3"), Bye("ok"), To(4, Say("ok"))),
    Do(<<Call("endExpedition")>>, Bye("ok")))), Idle,
    If(Fact("getEventManager('ScargaBattle') = null"), Bye("ok"),
    If(Fact("getEventManager('ScargaBattle').startInsta.."),
      Do(<<Call("getEventManager('ScargaBattle').setPropert.."),
           Call("getEventManager('ScargaBattle').setPropert..2"),
           Call("getEventManager('ScargaBattle').startInsta..")>>, Leave),
    Do(<<Call("getEventManager('ScargaBattle').setPropert.."),
         Call("getEventManager('ScargaBattle').setPropert..2"),
         Call("getEventManager('ScargaBattle').startInsta..")>>, Bye("ok")))), Idle,
    Do(<<Call("getExpedition(MapleExpeditionType.SCARGA)..")>>, Bye("ok"))>>))

n9270054 == Once(Do(<<Call("getStorage().sendStorage 9270054")>>, Leave))

n9300010 == Opens(To(0, Say("simple")),
    But(Talk(Rule(0, -1, Gone, Gone), <<
    Idle, Idle,
    When("newWepId=1302064",
        If(AllOf({Mesos(1000000), Has(1302030, 1), Has(4001126, 10)}), Fail, Bye("ok")))
    \cup When("newWepId=1312032",
        If(AllOf({Mesos(1000000), Has(1412011, 1), Has(4001126, 10)}), Fail, Bye("ok")))
    \cup When("newWepId=1322054",
        If(AllOf({Mesos(1000000), Has(1422014, 1), Has(4001126, 10)}), Fail, Bye("ok")))
    \cup When("newWepId=1432040",
        If(AllOf({Mesos(1000000), Has(1432012, 1), Has(4001126, 10)}), Fail, Bye("ok")))
    \cup When("newWepId=1442051",
        If(AllOf({Mesos(1000000), Has(1442024, 1), Has(4001126, 10)}), Fail, Bye("ok")))
    \cup When("newWepId=1092046",
        If(AllOf({Mesos(1000000), Has(1092030, 1), Has(4001126, 10)}), Fail, Bye("ok")))>>),
    At(0, "decline", To(1, Idle))
    @@ At(0, "yes", To(1, Say("simple")))
    @@ At(1, "yes",
         If(AnyOf({Chose(0), Chose(1)}), To(2, Keep("newWepId=1302064", Say("yesNo"))),
         If(AnyOf({Chose(2), Chose(3)}), To(2, Keep("newWepId=1312032", Say("yesNo"))),
         If(AnyOf({Chose(4), Chose(5)}), To(2, Keep("newWepId=1322054", Say("yesNo"))),
         If(Chose(11), To(2, Keep("newWepId=1432040", Say("yesNo"))),
         If(Chose(12), To(2, Keep("newWepId=1442051", Say("yesNo"))),
         To(2, Keep("newWepId=1092046", Say("yesNo")))))))))))

n9310058 == Once(Bye("ok"))

n9330046 == Talk(BackOrLeave, <<
    Say("simple"),
    If(Chose(1), Keep("tier=0", Say("yesNo")),
    If(Chose(2),
      If(Has(3011000, 1), Bye("next"),
      If(AllOf({Room(3011000, 1), Mesos(50000)}),
        Do(<<Give(3011000, 1), Pay(50000)>>, Bye("next")),
      Bye("ok"))),
    If(Chose(3), Bye("ok"),
    If(Chose(4), Keep("tier=1", Say("simple")), Keep("tier=2", Say("simple")))))),
    When("tier=0",
        If(AllOf({Room(2300000, 1), Mesos(3000)}),
          If(Has(2300000, 1), Bye("next"), Do(<<Give(2300000, 120), Pay(5000)>>, Bye("next"))),
        Bye("ok")))
    \cup When("tier=1",
        If(AllOf({HasThe("4031626,goldenRewards[selection][2]"),
                  RoomFor("goldenRewards[selection][1],1")}),
          Do(<<GiveThe("goldenRewards[selection][1]"),
               TakeThe("4031626,goldenRewards[selection][2]")>>, Leave),
        Bye("ok")))
    \cup When("tier=2",
        If(Chose(0), Keep("fish=0", Say("simple")),
        If(Chose(1), Keep("fish=1", Say("simple")),
        If(Chose(2), Keep("fish=2", Say("simple")), Keep("fish=3", Say("simple")))))),
    When("fish=0",
        If(AllOf({HasThe("4031630,carpRewards[selection][2]"),
                  HasThe("4031637,carpRewards[selection][2]"),
                  HasThe("4031638,carpRewards[selection][2]"),
                  HasThe("4031639,carpRewards[selection][2]"),
                  HasThe("4031640,carpRewards[selection][2]"),
                  RoomFor("carpRewards[selection][1],1")}),
          Do(<<GiveThe("carpRewards[selection][1]"), TakeThe("4031630,carpRewards[selection][2]"),
               TakeThe("4031637,carpRewards[selection][2]"),
               TakeThe("4031638,carpRewards[selection][2]"),
               TakeThe("4031639,carpRewards[selection][2]"),
               TakeThe("4031640,carpRewards[selection][2]")>>, Leave),
        Bye("ok")))
    \cup When("fish=1",
        If(AllOf({HasThe("4031627,whitebaitRewards[selection][2]"),
                  HasThe("4031633,whitebaitRewards[selection][2]"),
                  HasThe("4031634,whitebaitRewards[selection][2]"),
                  HasThe("4031635,whitebaitRewards[selection][2]"),
                  HasThe("4031636,whitebaitRewards[selection][2]"),
                  RoomFor("whitebaitRewards[selection][1],1")}),
          Do(<<GiveThe("whitebaitRewards[selection][1]"),
               TakeThe("4031627,whitebaitRewards[selection][2]"),
               TakeThe("4031633,whitebaitRewards[selection][2]"),
               TakeThe("4031634,whitebaitRewards[selection][2]"),
               TakeThe("4031635,whitebaitRewards[selection][2]"),
               TakeThe("4031636,whitebaitRewards[selection][2]")>>, Leave),
        Bye("ok")))
    \cup When("fish=2",
        If(AllOf({HasThe("4031628,sailfishRewards[selection][2]"),
                  HasThe("4031641,sailfishRewards[selection][2]"),
                  HasThe("4031642,sailfishRewards[selection][2]"),
                  HasThe("4031643,sailfishRewards[selection][2]"),
                  HasThe("4031644,sailfishRewards[selection][2]"),
                  RoomFor("sailfishRewards[selection][1],1")}),
          Do(<<GiveThe("sailfishRewards[selection][1]"),
               TakeThe("4031628,sailfishRewards[selection][2]"),
               TakeThe("4031641,sailfishRewards[selection][2]"),
               TakeThe("4031642,sailfishRewards[selection][2]"),
               TakeThe("4031643,sailfishRewards[selection][2]"),
               TakeThe("4031644,sailfishRewards[selection][2]")>>, Leave),
        Bye("ok")))
    \cup When("fish=3",
        If(AllOf({HasThe("4031631,salmonRewards[selection][2]"),
                  HasThe("4031645,salmonRewards[selection][2]"),
                  HasThe("4031646,salmonRewards[selection][2]"),
                  HasThe("4031647,salmonRewards[selection][2]"),
                  HasThe("4031648,salmonRewards[selection][2]"),
                  RoomFor("salmonRewards[selection][1],1")}),
          Do(<<GiveThe("salmonRewards[selection][1]"),
               TakeThe("4031631,salmonRewards[selection][2]"),
               TakeThe("4031645,salmonRewards[selection][2]"),
               TakeThe("4031646,salmonRewards[selection][2]"),
               TakeThe("4031647,salmonRewards[selection][2]"),
               TakeThe("4031648,salmonRewards[selection][2]")>>, Leave),
        Bye("ok")))>>)

n9900000 == Talk(BackOrLeave, <<
    If(Fact("gmLevel()#1 >= 1"), Say("simple"), Bye("ok")),
    If(Fact("gmLevel()#1 >= 1"), If(Mesos(1), Say("style"), Bye("next")), Leave),
    If(Fact("gmLevel()#1 >= 1"),
      Do(<<Given(Fact("(selection + 1) = 1"), <<Call("setSkin"), Earn(0)>>),
           Given(Fact("(((selection + 1) = 2 || (selection + 1) =.."),
             <<Call("setHair"), Earn(0)>>),
           Given(Fact("(selection + 1) = 3"), <<Call("setHair"), Earn(0)>>),
           Given(Fact("(selection + 1) = 4 || (selection + 1) = 7"), <<Call("setFace"), Earn(0)>>),
           Given(Fact("(selection + 1) = 5"), <<Call("setFace"), Earn(0)>>)>>, Leave),
    Leave)>>)

n9900001 == Talk(BackOrLeave, <<
    If(Fact("gmLevel()#1 >= 2"), Keep("page=yesNo", Say("yesNo")), Keep("page=ok", Say("ok"))),
    Do(<<Given(Fact("gmLevel()#1 >= 2"), <<Call("levelUp true")>>)>>, Leave)>>)

n9999998 == But(Talk(Rule(1, -1, Gone, 0), <<
    If(Level(50), Say("simple"), Bye("ok")),
    On("yes",
        If(Level(50),
          If(Room(3010001, 1),
            If(Chose(0),
              If(Has(5220002, 1), Do(<<Take(5220002, 1), Call("doGachapon")>>, Idle), Say("ok")),
            If(Mesos(1000000001), Do(<<Pay(1000000000), Call("doGachapon")>>, Idle), Say("ok"))),
          Say("ok")),
        Bye("ok")))
    \cup On("end", If(Level(50), Leave, Bye("ok"))), If(Level(50), Leave, Bye("ok"))>>),
    At(0, "decline", If(Level(50), Leave, Bye("ok"))))

n9999999 == Talk(BackOrLeave, <<
    Say("simple"),
    If(Chose(1), Do(<<Close, Call("openNpc 9999999 features")>>, Idle),
    If(Chose(2), Do(<<Close, Call("openNpc 9200000 TrophyExchange")>>, Idle),
    If(Chose(3), Do(<<Close, Call("openNpc 9201051 dailies")>>, Idle),
    If(Chose(4), Do(<<Close, Call("openNpc 9001104 nameReserve")>>, Idle), Bye("ok")))))>>)

n9999999_aramia == Talk(BackOrLeave, <<
    Do(<<Given(Has(4001168, 1), <<Call("removeTreeContributor")>>)>>, Say("simple")),
    If(Chose(1), Bye("ok"),
    If(Chose(2), If(Has(4001168, 1), Do(<<Call("giveEventDrop")>>, Leave), Bye("ok")),
    If(Chose(3),
      If(Fact("isTreeContributor(getPlayer())"), Do(<<Call("giveEventDrop")>>, Leave), Bye("ok")),
    If(Chose(4), Do(<<Close, Call("openNpc 9010002")>>, Idle),
    If(Chose(5), Do(<<Close, Call("openNpc 9200000 TrophyExchange")>>, Idle),
    Do(<<Close, Call("openNpc 9201051 ScavengerHunt")>>, Idle))))))>>)

n_MagatiaPassword == Talk(BackOrLeave, <<
    Say("text"),
    If(Fact("getText() = getStringQuestProgress(3360,0)"),
      If(InMap(261010000), Do(<<Call("setQuestProgress 3360 1 1"), Warp(261020200)>>, Leave),
      Do(<<Call("setQuestProgress 3360 1 1"), Warp(261010000)>>, Leave)),
    Bye("ok"))>>)

n_MaybeItsGrendel_end == Talk(BackOrLeave, <<Say("next"), Say("nextPrev"), Leave>>)

n_PupeteerPassword == Talk(BackOrLeave, <<
    If(Started(21728), Do(<<Page("ok"), Complete(21728)>>, Leave), Say("text")),
    If(Fact("getText() = 'Francis is a genius Puppeteer!'"),
      If(AllOf({Started(20730), Fact("getQuestProgress(20730,9300285) = 0")}),
        Do(<<Warp(910510001)>>, Leave),
      If(AllOf({Started(21731), Fact("getQuestProgress(21731,9300346) = 0")}),
        Do(<<Warp(910510001)>>, Leave),
      Leave)),
    Say("ok")), Leave>>)

n_ScavengerHunt == Once(Fail)

n_ThiefPassword == Talk(BackOrLeave, <<
    Say("text"),
    If(Fact("getText() = 'Open Sesame'"),
      If(Completed(3925), Do(<<Warp(260010402)>>, Leave), Leave),
    Say("ok")), Leave>>)

n_TrophyExchange == Talk(BackOrLeave, <<
    Keep("tier=0; status=-1", Say("simple")),
    When("tier=0; status=-1",
        If(Chose(0), Bye("ok"),
        If(Chose(1), Keep("tier=0; status=0", Say("simple")),
        If(Chose(2), Keep("tier=1; status=0", Say("simple")),
        Keep("tier=2; status=0", Say("simple"))))))
    \cup When("tier=0; status=0",
        If(AllOf({HasThe("4008002,bronzeRewards[selection][2]"),
                  RoomFor("bronzeRewards[selection][1],1")}),
          Do(<<GiveThe("bronzeRewards[selection][1]"),
               TakeThe("4008002,bronzeRewards[selection][2]")>>, Leave),
        Bye("ok")))
    \cup When("tier=1; status=0",
        If(AllOf({HasThe("4008001,silverRewards[selection][2]"),
                  RoomFor("silverRewards[selection][1],1")}),
          Do(<<GiveThe("silverRewards[selection][1]"),
               TakeThe("4008001,silverRewards[selection][2]")>>, Leave),
        Bye("ok")))
    \cup When("tier=2; status=0",
        If(AllOf({HasThe("4008000,goldRewards[selection][2]"),
                  RoomFor("goldRewards[selection][1],1")}),
          Do(<<GiveThe("goldRewards[selection][1]"),
               TakeThe("4008000,goldRewards[selection][2]")>>, Leave),
        Bye("ok")))>>)

n_changeName == But(Talk(BackOrLeave, <<
    If(Has(2430026, 1), Keep("page=yesNo", Say("yesNo")), Leave),
    When("page=yesNo", Keep("page=text", Say("text")))
    \cup When("page=text",
        If(Fact("MapleCharacter.canCreateChar(getText())"),
          Do(<<Call("setName"), Page("ok"), Take(2430026, 1)>>, Keep("page=ok", Idle)),
        Keep("page=next", Say("next"))))
    \cup When("page=ok", Do(<<Close, Call("getClient().disconnect false false")>>, Idle))
    \cup When("page=next", Do(<<Close, Call("getClient().disconnect false false")>>, Idle))>>),
    At(0, "decline", Idle))

n_commands == Talk(BackOrLeave, <<Say("simple"), Say("prev")>>)

n_dailies == But(Talk(BackOrLeave, <<
    Keep("status=-1", Say("simple")),
    If(AnyOf({Chose(0), Chose(1)}), Keep("status=0", Say("prev")),
    If(AllOf({Chose(2), Fact("hasProgressEntry('LOGIN')")}),
      Do(<<Call("completeDaily LOGIN true")>>, Idle),
    Keep("status=0", Say("prev"))))>>),
    At(0, "no", Keep("status=-1", Say("simple"))))

n_features == Opens(To(-1, Say("simple")),
    But(Talk(BackOrLeave, <<Say("prev")>>),
    At(0, "no", Say("simple"))))

n_gachaponRemote == Talk(BackOrLeave, <<
    If(Has(5451000, 1),
      If(AllOf({Room(1302000, 1), Room(2000000, 1), Room(3010001, 1), Room(4000000, 1)}),
        Do(<<Take(5451000, 1), Call("doGachapon")>>, Idle),
      Say("ok")),
    Leave), Leave>>)

n_nameReserve == But(Talk(BackOrLeave, <<
    Keep("case 1", Say("simple")),
    When("case 1",
        If(Chose(0), Keep("case 2", Say("prev")),
        If(Chose(1), Keep("case 3", Say("yesNo")), Keep("case 4", Say("text")))))
    \cup When("case 3",
        If(AnyOf({Fact("hasNameReserve()"), Fact("isNameAvailable(getName())")}), Bye("ok"),
        Do(<<Page("ok"), Call("addNameReserve")>>, Leave)))
    \cup When("case 4", Keep("case 5", Say("yesNo")))
    \cup When("case 5",
        If(AnyOf({Fact("hasNameReserve()"), Fact("isNameAvailable(getText())")}), Bye("ok"),
        Do(<<Page("ok"), Call("addNameReserve")>>, Leave)))>>),
    At(0, "no", Keep("case 1", Say("simple"))))

n_rank_user ==
  Once(If(Fact("getPlayerNPCByScriptid(getNpc()) = null"), Bye("ok"),
       Do(<<Call("GameConstants.ordinal"), Call("GameConstants.ordinal"),
            Call("GameConstants.ordinal"), Call("GameConstants.ordinal")>>, Bye("ok"))))

n_suggestions == Opens(To(-1, Say("simple")),
    Talk(BackOrLeave, <<
    If(Chose(0), Do(<<Page("ok")>>, Fail), If(Chose(1), Say("text"), Bye("ok"))), Fail>>))
=============================================================================
