----------------------------- MODULE NpcScripts4 ----------------------------
(***************************************************************************)
(* Tables of the scripts under scripts/npc: Orbis and El Nath.             *)
(* n<id> is the conversation of a script, its start() and action().        *)
(***************************************************************************)
EXTENDS Dialogue

n2001000 == But(Talk(BackAlways, <<Say("next"), Say("nextPrev"), Say("nextPrev"), Bye("prev")>>),
    At(0, "end", Leave))

n2001001 == But(Talk(BackUnlessEnd, <<Say("yesNo"), Do(<<Warp(209000001)>>, Leave)>>),
    At(0, "decline", Idle))

n2001002 == But(Talk(BackUnlessEnd, <<Say("yesNo"), Do(<<Warp(209000002)>>, Leave)>>),
    At(0, "decline", Idle))

n2001003 == But(Talk(BackUnlessEnd, <<Say("yesNo"), Do(<<Warp(209000003)>>, Leave)>>),
    At(0, "decline", Idle))

n2001004 == But(Talk(BackUnlessEnd, <<Say("yesNo"), Do(<<Warp(209000000)>>, Leave)>>),
    At(0, "decline", Idle))

n2002000 == Talk(BackOrLeave, <<
    Say("yesNo"),
    If(Fact("getSavedLocation('HAPPYVILLE') = -1"), Do(<<Warp(101000000)>>, Leave),
    Do(<<WarpTo("getSavedLocation('HAPPYVILLE')")>>, Leave))>>)

n2010000 == Talk(Stay, <<
    On("open", Say("next")) \cup On("end", Bye("ok")),
    On("yes", Say("yesNo")) \cup On("decline", Bye("ok")) \cup On("end", Bye("ok")),
    On("yes", Say("simple")) \cup On("decline", Bye("ok")),
    On("yes", Say("yesNo")) \cup On("decline", Bye("ok")) \cup On("end", Bye("ok")),
    If(AllOf({HasThe("eQuestChoices[selection],100"),
              RoomFor("eQuestPrizes[selection][floor((random * eQ..")}),
      Do(<<TakeThe("eQuestChoices[selection],100"), ExpOf("(500 * getExpRate())"),
           GiveThe("eQuestPrizes[selection][floor((random * eQ..")>>, Bye("ok")),
    Bye("ok"))>>)

n2010001 == Talk(BackOrLeave, <<
    Say("simple"), If(Chose(1), Keep("beauty=1", Say("style")), Keep("beauty=2", Say("style"))),
    When("beauty=1",
        If(Has(5150005, 1), Do(<<Close, Take(5150005, 1), Call("setHair")>>, Say("ok")),
        If(Has(5420004, 1), Do(<<Close, Call("setHair")>>, Say("ok")), Bye("ok"))))
    \cup When("beauty=2",
        If(Has(5151005, 1), Do(<<Close, Take(5151005, 1), Call("setHair")>>, Say("ok")),
        Bye("ok")))>>)

n2010002 == Talk(BackOrLeave, <<
    Say("simple"), Say("style"),
    If(Has(5152005, 1), Do(<<Close, Take(5152005, 1), Call("setFace")>>, Say("ok")), Bye("ok"))>>)

n2010003 == Talk(BackOrLeave, <<
    Say("simple"), Say("simple"),
    If(Chose(0), Keep("item=1082103", Say("yesNo")),
    If(Chose(1), Keep("item=1082107", Say("yesNo")),
    If(Chose(2), Keep("item=1082100", Say("yesNo")),
    If(Chose(3), Keep("item=1082118", Say("yesNo")), Keep("item=undefined", Say("yesNo")))))),
    When("item=1082103",
        If(AllOf({Room(1082103, 1), Mesos(90000), Has(4005000, 2), Has(4011000, 8),
                  Has(4011006, 3), Has(4000030, 70), Has(4003000, 55)}),
          Do(<<Take(4005000, 2), Take(4011000, 8), Take(4011006, 3), Take(4000030, 70),
               Take(4003000, 55), Pay(90000), Give(1082103, 1)>>, Bye("ok")),
        Bye("ok")))
    \cup When("item=1082107",
        If(AllOf({Room(1082107, 1), Mesos(90000), Has(1082106, 1), Has(4021006, 5),
                  Has(4011006, 3)}),
          Do(<<Take(1082106, 1), Take(4021006, 5), Take(4011006, 3), Pay(90000),
               Give(1082107, 1)>>, Bye("ok")),
        Bye("ok")))
    \cup When("item=1082100",
        If(AllOf({Room(1082100, 1), Mesos(100000), Has(1082098, 1), Has(4021008, 3),
                  Has(4011006, 3)}),
          Do(<<Take(1082098, 1), Take(4021008, 3), Take(4011006, 3), Pay(100000),
               Give(1082100, 1)>>, Bye("ok")),
        Bye("ok")))
    \cup When("item=1082118",
        If(AllOf({Room(1082118, 1), Mesos(100000), Has(4005003, 2), Has(4005002, 1),
                  Has(4011002, 8), Has(4000030, 90), Has(4003000, 60)}),
          Do(<<Take(4005003, 2), Take(4005002, 1), Take(4011002, 8), Take(4000030, 90),
               Take(4003000, 60), Pay(100000), Give(1082118, 1)>>, Bye("ok")),
        Bye("ok")))
    \cup When("item=undefined",
        If(AllOf({RoomFor("undefined,1"), MesosFor("undefined"), HasThe("undefined,undefined")}),
          Do(<<GiveThe("undefined,NaN"), EarnThe("NaN"), GiveThe("undefined")>>, Bye("ok")),
        Bye("ok")))>>)

n2010005 == But(Talk(BackOrLeave, <<
    Say("simple"),
    If(Chose(0), Keep("check=0", Say("yesNo")),
    If(Chose(1), Keep("check=1", Say("yesNo")), To(3, Say("next")))),
    When("check=0",
        If(Mesos(2000), Do(<<Pay(2000), Call("saveLocation FLORINA"), Warp(110000000)>>, Leave),
        Do(<<Page("ok"), Close>>, Fail)))
    \cup When("check=1",
        If(Has(4031134, 1), Do(<<Call("saveLocation FLORINA"), Warp(110000000)>>, Leave),
        Do(<<Page("ok"), Close>>, Fail))), Say("next"), Say("prev")>>),
    At(1, "decline", Bye("next")))

n2010006 == Once(Do(<<Call("getStorage().sendStorage 2010006")>>, Leave))

n2010007 == Talk(BackOrLeave, <<
    Say("simple"),
    If(Chose(0), If(Fact("getGuildId() >= 1"), Bye("ok"), Keep("sel=0", Say("yesNo"))),
    If(AllOf({Fact("getGuildId() >= 1"), Fact("getGuildRank() = 1")}),
      If(Chose(1), Keep("sel=1", Say("yesNo")),
      If(Chose(2), Keep("sel=2", Say("yesNo")), Keep("sel=3", Say("yesNo")))),
    Bye("ok"))),
    When("sel=0",
        If(Fact("getGuildId() >= 1"), Idle, Do(<<Call("genericGuildMessage 1")>>, Leave)))
    \cup When("sel=1",
        If(AllOf({Fact("getGuildId() >= 1"), Fact("getGuildRank() = 1")}),
          Do(<<Call("disbandGuild")>>, Leave),
        Idle))
    \cup When("sel=2",
        If(AllOf({Fact("getGuildId() >= 1"), Fact("getGuildRank() = 1")}),
          Do(<<Call("increaseGuildCapacity")>>, Leave),
        Idle))
    \cup When("sel=3",
        If(AllOf({Fact("getGuildId() >= 1"), Fact("getGuildRank() = 1")}), Say("text"), Idle)),
    If(Fact("updateGuildName(getGuildId(),getText())#1.."),
      Do(<<Call("updateGuildName"), Pay(500000000)>>, Bye("ok")),
    If(AnyOf({Fact("updateGuildName(getGuildId(),getText())#1..2"),
              Fact("updateGuildName(getGuildId(),getText())#1..3")}),
      Do(<<Call("updateGuildName")>>, Bye("ok")),
    Do(<<Call("updateGuildName")>>, Leave)))>>)

n2010008 == Talk(BackOrLeave, <<
    Say("simple"), If(Fact("getGuildRank() = 1"), Say("yesNo"), Say("ok")),
    Do(<<Call("genericGuildMessage 17")>>, Leave)>>)

n2010009 == Talk(BackOrLeave, <<
    If(AllOf({Fact("getGuildId() >= 1"), Fact("getGuildRank() = 1")}), Say("simple"), Bye("next")),
    If(AnyOf({Chose(0), Chose(1)}), Bye("next"),
    If(Chose(2),
      If(Fact("isLeader()"),
        If(Fact("getGuild().getAllianceId() >= 1"), Bye("ok"), Keep("choice=2", Say("yesNo"))),
      Bye("next")),
    If(Fact("getMGC() = null"), Bye("ok"),
    If(Fact("getMGC().getAllianceRank() = 1"),
      If(Chose(3), Keep("choice=3", Say("yesNo")), Keep("choice=4", Say("yesNo"))),
    Bye("next"))))),
    When("choice=2", If(Mesos(2000000), Say("text"), Bye("ok")))
    \cup When("choice=3",
        If(Fact("getAllianceCapacity() = 5"), Bye("ok"),
        If(Mesos(1000000), Do(<<Call("upgradeAlliance"), Pay(1000000)>>, Bye("ok")), Bye("ok"))))
    \cup When("choice=4",
        If(Fact("getGuild() = null"), Bye("next"),
        If(Fact("getGuild().getAllianceId() >= 1"), Do(<<Call("disbandAlliance")>>, Bye("ok")),
        Bye("next")))), Say("yesNo"),
    If(Fact("canBeUsedAllianceName(getText())"),
      If(Fact("createAlliance(getText())#1 = null"), Do(<<Call("createAlliance")>>, Bye("ok")),
      Do(<<Call("createAlliance"), Pay(2000000)>>, Bye("ok"))),
    To(1, Keep("choice=2", Say("next"))))>>)

n2012000 == Once(Bye("ok"))

n2012001 == But(Talk(BackOrLeave, <<
    Say("yesNo"), If(Mesos(10000), Do(<<Pay(10000), Warp(101000300)>>, Leave), Bye("ok"))>>),
    At(0, "decline", Bye("ok")))

n2012002 == But(Talk(BackOrLeave, <<Say("yesNo"), Say("next"), Do(<<Warp(200000111)>>, Leave)>>),
    At(1, "end", Bye("next")))

n2012006 == Opens(To(-1, Say("simple")),
    Talk(BackOrLeave, <<Say("next"), Do(<<WarpTo("(200000110 + (selection * 10))")>>, Leave)>>))

n2012007 == Talk(BackOrLeave, <<
    Say("simple"),
    If(Chose(0), Keep("beauty=4", Say("yesNo")),
    If(Chose(1), Keep("beauty=3", Say("yesNo")),
    If(Chose(2), Keep("beauty=1", Say("yesNo")), Keep("beauty=2", Say("yesNo"))))),
    When("beauty=4",
        If(Has(5154000, 1), Do(<<Close, Take(5154000, 1), Call("setHair")>>, Say("ok")),
        Bye("ok")))
    \cup When("beauty=3",
        If(Has(5150004, 1), Do(<<Close, Take(5150004, 1), Call("setHair")>>, Say("ok")),
        Bye("ok")))
    \cup When("beauty=1",
        If(Has(5150013, 1), Do(<<Close, Take(5150013, 1), Call("setHair")>>, Say("ok")),
        Bye("ok")))
    \cup When("beauty=2",
        If(Has(5151004, 1), Do(<<Close, Take(5151004, 1), Call("setHair")>>, Say("ok")),
        Bye("ok")))>>)

n2012008 == Talk(BackOrLeave, <<
    Say("simple"), Say("style"),
    If(Has(5153001, 1), Do(<<Close, Take(5153001, 1), Call("setSkin selection")>>, Say("ok")),
    Bye("ok"))>>)

n2012009 == Talk(BackOrLeave, <<
    Say("simple"), Say("yesNo"),
    If(Has(5152004, 1), Do(<<Take(5152004, 1), Call("setFace")>>, Bye("ok")), Bye("ok"))>>)

n2012012 == Once(Bye("ok"))

n2012013 == But(Talk(BackOrLeave, <<
    Say("yesNo"), If(Mesos(10000), Do(<<Pay(10000), Warp(220000110)>>, Leave), Bye("ok"))>>),
    At(0, "decline", Bye("ok")))

n2012014 == Talk(BackOrLeave, <<
    If(Has(4001019, 1), Say("yesNo"), Bye("ok")),
    Do(<<Take(4001019, 1), Warp(200082100)>>, Leave)>>)

n2012015 == Talk(BackOrLeave, <<
    If(Has(4001019, 1), Say("yesNo"), Bye("ok")),
    Do(<<Take(4001019, 1), Warp(200080200)>>, Leave)>>)

n2012021 == But(Talk(BackOrLeave, <<
    Say("yesNo"), If(Mesos(10000), Do(<<Pay(10000), Warp(240000110)>>, Leave), Bye("ok"))>>),
    At(0, "decline", Bye("ok")))

n2012022 == Opens(To(1, Say("yesNo")),
    Talk(BackOrLeave, <<Idle, Idle, Say("next"), Do(<<Warp(200000131)>>, Leave)>>))

n2012023 ==
  Once(Do(<<Given(Has(4031476, 1), <<Take(4031476, 1)>>),
            Under({Has(4031476, 1), Room(4031456, 1)}, {}, <<Give(4031456, 1)>>)>>, Leave))

n2012024 == Opens(To(1, Say("yesNo")),
    Talk(BackOrLeave, <<Idle, Idle, Say("next"), Do(<<Warp(200000151)>>, Leave)>>))

n2012025 == But(Talk(BackOrLeave, <<
    Say("yesNo"), If(Mesos(10000), Do(<<Pay(10000), Warp(260000100)>>, Leave), Bye("ok"))>>),
    At(0, "decline", Bye("ok")))

n2012027 ==
  Once(If(AllOf({Started(3114), Fact("(-1 * getQuestProgressInt(3114)) >= 0")}),
         If(Fact("harpSong[(-1 * getQuestProgressInt(3114))].."),
           If(AllOf({Fact("harpSong[((-1 * getQuestProgressInt(3114)).."),
                     Fact("((-1 * getQuestProgressInt(3114)) + 1) = 45")}),
             Do(<<Call("setQuestProgress 3114 42")>>, Leave),
           Do(<<Call("setQuestProgress 3114")>>, Leave)),
         Do(<<Call("setQuestProgress 3114 0")>>, Leave)),
       Leave))

n2012028 ==
  Once(If(AllOf({Started(3114), Fact("(-1 * getQuestProgressInt(3114)) >= 0")}),
         If(Fact("harpSong[(-1 * getQuestProgressInt(3114))]..2"),
           If(AllOf({Fact("harpSong[((-1 * getQuestProgressInt(3114)).."),
                     Fact("((-1 * getQuestProgressInt(3114)) + 1) = 45")}),
             Do(<<Call("setQuestProgress 3114 42")>>, Leave),
           Do(<<Call("setQuestProgress 3114")>>, Leave)),
         Do(<<Call("setQuestProgress 3114 0")>>, Leave)),
       Leave))

n2012029 ==
  Once(If(AllOf({Started(3114), Fact("(-1 * getQuestProgressInt(3114)) >= 0")}),
         If(Fact("harpSong[(-1 * getQuestProgressInt(3114))]..3"),
           If(AllOf({Fact("harpSong[((-1 * getQuestProgressInt(3114)).."),
                     Fact("((-1 * getQuestProgressInt(3114)) + 1) = 45")}),
             Do(<<Call("setQuestProgress 3114 42")>>, Leave),
           Do(<<Call("setQuestProgress 3114")>>, Leave)),
         Do(<<Call("setQuestProgress 3114 0")>>, Leave)),
       Leave))

n2012030 ==
  Once(If(AllOf({Started(3114), Fact("(-1 * getQuestProgressInt(3114)) >= 0")}),
         If(Fact("harpSong[(-1 * getQuestProgressInt(3114))]..4"),
           If(AllOf({Fact("harpSong[((-1 * getQuestProgressInt(3114)).."),
                     Fact("((-1 * getQuestProgressInt(3114)) + 1) = 45")}),
             Do(<<Call("setQuestProgress 3114 42")>>, Leave),
           Do(<<Call("setQuestProgress 3114")>>, Leave)),
         Do(<<Call("setQuestProgress 3114 0")>>, Leave)),
       Leave))

n2012031 ==
  Once(If(AllOf({Started(3114), Fact("(-1 * getQuestProgressInt(3114)) >= 0")}),
         If(Fact("harpSong[(-1 * getQuestProgressInt(3114))]..5"),
           If(AllOf({Fact("harpSong[((-1 * getQuestProgressInt(3114)).."),
                     Fact("((-1 * getQuestProgressInt(3114)) + 1) = 45")}),
             Do(<<Call("setQuestProgress 3114 42")>>, Leave),
           Do(<<Call("setQuestProgress 3114")>>, Leave)),
         Do(<<Call("setQuestProgress 3114 0")>>, Leave)),
       Leave))

n2012032 ==
  Once(If(AllOf({Started(3114), Fact("(-1 * getQuestProgressInt(3114)) >= 0")}),
         If(Fact("harpSong[(-1 * getQuestProgressInt(3114))]..6"),
           If(AllOf({Fact("harpSong[((-1 * getQuestProgressInt(3114)).."),
                     Fact("((-1 * getQuestProgressInt(3114)) + 1) = 45")}),
             Do(<<Call("setQuestProgress 3114 42")>>, Leave),
           Do(<<Call("setQuestProgress 3114")>>, Leave)),
         Do(<<Call("setQuestProgress 3114 0")>>, Leave)),
       Leave))

n2012033 ==
  Once(If(AllOf({Started(3114), Fact("(-1 * getQuestProgressInt(3114)) >= 0")}),
         If(Fact("harpSong[(-1 * getQuestProgressInt(3114))]..7"),
           If(AllOf({Fact("harpSong[((-1 * getQuestProgressInt(3114)).."),
                     Fact("((-1 * getQuestProgressInt(3114)) + 1) = 45")}),
             Do(<<Call("setQuestProgress 3114 42")>>, Leave),
           Do(<<Call("setQuestProgress 3114")>>, Leave)),
         Do(<<Call("setQuestProgress 3114 0")>>, Leave)),
       Leave))

n2013002 == Talk(BackOrLeave, <<
    If(AnyOf({InMap(920010100), InMap(920011100)}), Keep("page=yesNo", Say("yesNo")),
    If(InMap(920011300), Keep("page=next", Say("next")), Idle)),
    If(AnyOf({InMap(920010100), InMap(920011100)}), Do(<<Warp(920011300)>>, Leave),
    If(InMap(920011300),
      If(Fact("getEventInstance().giveEventReward(getPlay.."),
        Do(<<Call("getEventInstance().giveEventReward"), Warp(200080101)>>, Leave),
      Do(<<Call("getEventInstance().giveEventReward")>>, Bye("ok"))),
    Idle))>>)

n2020002 == Talk(BackOrLeave, <<
    Say("simple"), Say("simple"),
    If(Chose(0), Keep("item=1072147", Say("yesNo")),
    If(Chose(1), Keep("item=1072145", Say("yesNo")),
    If(Chose(2), Keep("item=1072138", Say("yesNo")),
    If(Chose(3), Keep("item=1072161", Say("yesNo")), Keep("item=undefined", Say("yesNo")))))),
    When("item=1072147",
        If(AllOf({Room(1072147, 1), Mesos(60000), Has(4021008, 1), Has(4011007, 1),
                  Has(4021005, 8), Has(4000030, 80), Has(4003000, 55)}),
          Do(<<Take(4021008, 1), Take(4011007, 1), Take(4021005, 8), Take(4000030, 80),
               Take(4003000, 55), Pay(60000), Give(1072147, 1)>>, Bye("ok")),
        Bye("ok")))
    \cup When("item=1072145",
        If(AllOf({Room(1072145, 1), Mesos(60000), Has(4011006, 5), Has(4021005, 8),
                  Has(4021007, 1), Has(4000030, 75), Has(4003000, 50)}),
          Do(<<Take(4011006, 5), Take(4021005, 8), Take(4021007, 1), Take(4000030, 75),
               Take(4003000, 50), Pay(60000), Give(1072145, 1)>>, Bye("ok")),
        Bye("ok")))
    \cup When("item=1072138",
        If(AllOf({Room(1072138, 1), Mesos(60000), Has(4021009, 1), Has(4011006, 4),
                  Has(4011003, 5), Has(4000030, 70), Has(4003000, 50)}),
          Do(<<Take(4021009, 1), Take(4011006, 4), Take(4011003, 5), Take(4000030, 70),
               Take(4003000, 50), Pay(60000), Give(1072138, 1)>>, Bye("ok")),
        Bye("ok")))
    \cup When("item=1072161",
        If(AllOf({Room(1072161, 1), Mesos(70000), Has(4005003, 1), Has(4005000, 3),
                  Has(4021001, 5), Has(4000051, 100), Has(4003000, 55)}),
          Do(<<Take(4005003, 1), Take(4005000, 3), Take(4021001, 5), Take(4000051, 100),
               Take(4003000, 55), Pay(70000), Give(1072161, 1)>>, Bye("ok")),
        Bye("ok")))
    \cup When("item=undefined",
        If(AllOf({RoomFor("undefined,1"), MesosFor("undefined"), HasThe("undefined,undefined")}),
          Do(<<GiveThe("undefined,NaN"), EarnThe("NaN"), GiveThe("undefined")>>, Bye("ok")),
        Bye("ok")))>>)

n2020004 == Once(Do(<<Call("getStorage().sendStorage 2020004")>>, Leave))

n2020005 == Talk(Stay, <<
    On("open", If(Completed(3035), Say("simple"), Bye("next")))
    \cup On("decline", If(Completed(3035), Leave, Bye("next"))),
    On("yes", If(Completed(3035), Say("number"), Bye("next")))
    \cup On("decline", If(Completed(3035), Leave, Bye("next"))),
    On("yes",
        If(Completed(3035), If(Chose(0), Do(<<Page("ok")>>, Bye("yesNo")), Say("yesNo")),
        Bye("next")))
    \cup On("decline", Bye("next"))
    \cup On("end", If(Completed(3035), Leave, Bye("next"))),
    If(Completed(3035),
      If(AllOf({MesosFor("(cost[selection] * selection)"), RoomFor("item[selection]")}),
        Do(<<Page("next"), PayFor("(cost[selection] * selection)"),
             GiveThe("item[selection],selection")>>, Leave),
      Do(<<Page("next"), Close, Page("next"), PayFor("(cost[selection] * selection)"),
           GiveThe("item[selection],selection")>>, Idle)),
    Bye("next"))>>)

n2022004 == Talk(BackOrLeave, <<Say("next"), Do(<<Warp(211000000)>>, Leave)>>)

n2030008 == Talk(BackOrLeave, <<
    If(Has(4001109, 1), Do(<<Warp(921100000)>>, Leave),
    If(AnyOf({Started(100200), Completed(100200)}),
      If(Fact("getEventManager('ZakumPQ') = null"), Bye("ok"), Say("simple")),
    Bye("ok"))),
    If(Has(4001109, 1), Do(<<Warp(921100000)>>, Leave),
    If(AnyOf({Started(100200), Completed(100200)}),
      If(Fact("getEventManager('ZakumPQ') = null"), Bye("ok"),
      If(Chose(0),
        If(Fact("getParty() = null"), Bye("ok"),
        If(AllOf({Fact("isLeader()"), Fact("getEventManager('ZakumPQ').getEligiblePart..")}),
          If(Fact("getEventManager('ZakumPQ').startInstance(g.."),
            Do(<<Call("getEventManager('ZakumPQ').startInstance 1")>>, Leave),
          Do(<<Call("getEventManager('ZakumPQ').startInstance 1")>>, Bye("ok"))),
        Bye("ok"))),
      If(Chose(1),
        If(Has(4031061, 1), If(Has(4031062, 1), Bye("next"), Say("yesNo")), Bye("next")),
      If(AllOf({Has(4031061, 1), Has(4031062, 1), Has(4000082, 30)}),
        Do(<<Complete(100201), Take(4031061, 1), Take(4031062, 1), Take(4000082, 30),
             Give(4001017, 5)>>, Bye("next")),
      Bye("ok"))))),
    Bye("ok"))),
    If(Has(4001109, 1), Do(<<Warp(921100000)>>, Leave),
    If(AnyOf({Started(100200), Completed(100200)}),
      If(Fact("getEventManager('ZakumPQ') = null"), Bye("ok"), Do(<<Warp(280020000)>>, Leave)),
    Bye("ok")))>>)

n2030010 == Talk(BackOrLeave, <<Say("yesNo"), Do(<<Warp(211042300)>>, Leave)>>)

n2030011 ==
  Once(Do(<<Warp(211042300), TakeAll(4001015), TakeAll(4001016), TakeAll(4001018)>>, Bye("ok")))

n2030013 == Opens(
        If(AllOf({Fact("getLevel() < MapleExpeditionType.ZAKUM.get.."),
                  Fact("getLevel() > MapleExpeditionType.ZAKUM.get..")}),
          Bye("ok"),
        If(Fact("getExpedition(MapleExpeditionType.ZAKUM) =.."), To(1, Say("simple")),
        If(Fact("getExpedition(MapleExpeditionType.ZAKUM).i.."),
          If(Fact("getExpedition(MapleExpeditionType.ZAKUM).i..2"),
            Do(<<Call("getEventManager('ZakumBattle').getInstance..")>>, To(0, Idle)),
          To(2, Say("simple"))),
        If(Fact("getExpedition(MapleExpeditionType.ZAKUM).i..3"),
          If(Fact("getExpedition(MapleExpeditionType.ZAKUM).c.."), Bye("ok"),
          Do(<<Call("getExpedition(MapleExpeditionType.ZAKUM).a..")>>, Bye("ok"))),
        If(Fact("getExpedition(MapleExpeditionType.ZAKUM).i..2"),
          If(Fact("getExpedition(MapleExpeditionType.ZAKUM).c.."),
            If(Fact("getEventManager('ZakumBattle').getInstance.."),
              Do(<<Call("getEventManager('ZakumBattle').getInstance.."),
                   Call("getEventManager('ZakumBattle').getInstance..")>>, Leave),
            Do(<<Call("getEventManager('ZakumBattle').getInstance..")>>, Bye("ok"))),
          Bye("ok")),
        To(0, Idle)))))),
    Talk(Rule(0, -1, Gone, Gone), <<
    Idle,
    If(AllOf({Chose(1), Has(4001017, 1), Fact("getExpedition(MapleExpeditionType.ZAKUM) =..")}),
      Do(<<Call("createExpedition MapleExpeditionType.ZAKUM")>>, Bye("ok")),
    Bye("ok")),
    If(Chose(1),
      If(AnyOf({Fact("getExpedition(MapleExpeditionType.ZAKUM) =.."),
                Fact("getExpedition(MapleExpeditionType.ZAKUM).g..")}),
        Bye("ok"),
      To(6, Say("simple"))),
    If(Chose(2),
      If(Fact("getExpedition(MapleExpeditionType.ZAKUM).g..2"), Bye("ok"), To(4, Say("ok"))),
    Do(<<Call("endExpedition")>>, Bye("ok")))), Idle,
    If(Fact("getEventManager('ZakumBattle') = null"), Bye("ok"),
    If(Fact("getEventManager('ZakumBattle').startInstan.."),
      Do(<<Call("getEventManager('ZakumBattle').setProperty.."),
           Call("getEventManager('ZakumBattle').setProperty..2"),
           Call("getEventManager('ZakumBattle').startInstance")>>, Leave),
    Do(<<Call("getEventManager('ZakumBattle').setProperty.."),
         Call("getEventManager('ZakumBattle').setProperty..2"),
         Call("getEventManager('ZakumBattle').startInstance")>>, Bye("ok")))), Idle,
    Do(<<Call("getExpedition(MapleExpeditionType.ZAKUM).ban")>>, Bye("ok"))>>))

n2030014 ==
  Once(Do(<<
            Under({Has(4031450, 1), Room(2280011, 1)}, {}, <<Give(2280011, 1), Take(4031450, 1)>>)>>, Leave))

n2032001 == Talk(BackOrLeave, <<
    If(Completed(3034), Say("yesNo"), Bye("ok")), Say("number"),
    If(AllOf({MesosFor("(500000 * selection)"), HasThe("4004004,(10 * selection)"),
              RoomFor("4005004,selection")}),
      Do(<<TakeThe("4004004,(-10 * selection)"), PayFor("(-500000 * selection)"),
           GiveThe("4005004,selection")>>, Bye("ok")),
    Bye("ok"))>>)

n2032002 == Talk(LeaveUnlessYes, <<
    If(Fact("getEventInstance().isEventCleared()"), Keep("page=next", Say("next")),
    Keep("page=simple", Say("simple"))),
    If(Fact("getEventInstance().isEventCleared()"),
      If(Fact("getEventInstance().getProperty('gotDocumen.."),
        If(AllOf({Fact("getEventInstance().gridCheck(getPlayer())#.."),
                  RoomFor("[2030007,4031061],[5,1]")}),
          Do(<<Call("getEventInstance().gridCheck"), Give(2030007, 5), Give(4031061, 1),
               Call("getEventInstance().gridInsert 1")>>, Leave),
        Do(<<Call("getEventInstance().gridCheck")>>, Bye("ok"))),
      If(AllOf({Fact("getEventInstance().gridCheck(getPlayer())#.."), Room(4031061, 1)}),
        Do(<<Call("getEventInstance().gridCheck"), Give(4031061, 1),
             Call("getEventInstance().gridInsert 1")>>, Leave),
      Do(<<Call("getEventInstance().gridCheck")>>, Bye("ok")))),
    When("page=next", Idle)
    \cup When("page=simple",
        If(Chose(0), Bye("next"),
        If(Chose(1),
          If(AllOf({Fact("isEventLeader()"), Has(4001018, 1)}),
            If(Has(4001015, 30), Keep("gotAllDocs=true", Say("yesNo")),
            Keep("gotAllDocs=false", Say("yesNo"))),
          Bye("next")),
        Keep("selectedType=2", Say("yesNo")))))),
    When("gotAllDocs=true",
        Do(<<Take(4001018, 1), Take(4001015, 30),
             Call("getEventInstance().setProperty gotDocument.."),
             Call("getEventInstance().giveEventPlayersExp 20000"),
             Call("getEventInstance().clearPQ")>>, Leave))
    \cup When("gotAllDocs=false",
        Do(<<Take(4001018, 1), Call("getEventInstance().giveEventPlayersExp 12000"),
             Call("getEventInstance().clearPQ")>>, Leave))
    \cup When("selectedType=2", Do(<<Warp(211042300)>>, Leave))>>)

n2032003 == Talk(BackOrLeave, <<
    Say("next"), If(Room(4031062, 1), Say("next"), Bye("ok")),
    Do(<<Give(4031062, 1), ExpOf("(10000 * getExpRate())"), Warp(211042300)>>, Leave)>>)
=============================================================================
