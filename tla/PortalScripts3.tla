--------------------------- MODULE PortalScripts3 ---------------------------
(***************************************************************************)
(* Tables of the scripts under scripts/portal: the portals from O to Z.    *)
(* p_<name> is the function enter of the script <name>.js.                 *)
(***************************************************************************)
EXTENDS WorldScripts

p_OBoat1 == Do(<<Warp(200090010)>>, Through)
p_OBoat2 == Do(<<Warp(200090010)>>, Through)

p_obstacle ==
  If(Started(100202), Do(<<Warp(106020400)>>, Through),
  If(AllOf({Has(4000507, 1), Completed(2319)}),
    Do(<<Take(4000507, 1), Warp(106020400)>>, Through),
  Stays))

p_out_ani == Do(<<Warp(211061000)>>, Stays)
p_outArchterMap == Do(<<Warp(100000000)>>, Through)

p_outChild ==
  If(Started(21001), Do(<<Warp(914000400)>>, Through), Do(<<Warp(914000220)>>, Through))

p_outDarkEreb ==
  If(Completed(20407), Do(<<Warp(924010200)>>, Through), Do(<<Warp(924010100)>>, Through))

p_outMagiclib ==
  If(Fact("getMap().countMonster(2220100) >= 1"), Stays,
  If(Completed(20718),
    Do(<<ToEvent("stopEventTimer"), ToEvent("dispose"), Warp(101000000), Npc(1103003)>>, Through),
  Do(<<ToEvent("stopEventTimer"), ToEvent("dispose"), Warp(101000000)>>, Through)))

p_outMaha == Do(<<Warp(140000000)>>, Through)
p_outNix1 == Do(<<Warp(240020101)>>, Through)
p_outNix2 == Do(<<Warp(240020401)>>, Through)
p_outPerrion_1 == Do(<<Warp(105100000)>>, Through)
p_outPerrion_2 == Do(<<Warp(105100000)>>, Through)
p_outRider == If(Room(4001193, 1), Do(<<Give(4001193, 1), Warp(211050000)>>, Through), Stays)
p_outSpecialSchool == Do(<<Warp(925040000)>>, Through)
p_outTemple == Do(<<Call("useItem 2210016"), Warp(200090510)>>, Through)

p_outtestWolf ==
  If(AllOf({Fact("getMap().countMonsters() = 0"), Room(4001193, 1)}),
    Do(<<Give(4001193, 1), Warp(140010210)>>, Through),
  Stays)

p_party3_gardenin ==
  If(Fact("getParty() = null"), Stays,
  If(AllOf({Fact("isEventLeader()"), Has(4001055, 1)}), Do(<<Warp(920010100)>>, Through), Stays))

p_party3_jail1 ==
  If(OfEvent("getIntProperty('statusStg8') = 1"), Do(<<Warp(920010910)>>, Through), Stays)

p_party3_jail2 ==
  If(OfEvent("getIntProperty('statusStg8') = 1"), Do(<<Warp(920010920)>>, Through), Stays)

p_party3_jail3 ==
  If(OfEvent("getIntProperty('statusStg8') = 1"), Do(<<Warp(920010930)>>, Through), Stays)

p_party3_r4pt ==
  If(OfEvent("getProperty('stage4_comb') = null"),
    Do(<<ToEvent("setProperty stage4_comb"), WarpTo("getMapId()")>>, Through),
  Do(<<WarpTo("getMapId()")>>, Through))

p_party3_r4pt1 == Do(<<Warp(920010600)>>, Through)

p_party3_r6pt ==
  If(OfEvent("getProperty('stage6_comb') = null"),
    Do(<<ToEvent("setProperty stage6_comb"), WarpTo("getMapId()")>>, Through),
  Do(<<WarpTo("getMapId()")>>, Through))

p_party3_room1 == Do(<<Warp(920010200)>>, Through)
p_party3_room2 == Do(<<Warp(920010300)>>, Through)
p_party3_room3 == Do(<<Warp(920010400)>>, Through)
p_party3_room4 == Do(<<Warp(920010500)>>, Through)
p_party3_room5 == Do(<<Warp(920010600)>>, Through)
p_party3_room6 == Do(<<Warp(920010700)>>, Through)

p_party3_room8 ==
  If(OfEvent("getIntProperty('statusStg8') = 1"), Do(<<Warp(920011000)>>, Through), Stays)

p_party3_roomout == Do(<<Warp(920010100)>>, Through)

p_party6_out ==
  If(AllOf({OfEvent("isEventCleared()"), Fact("isEventLeader()")}),
    Do(<<Warp(930000800)>>, Through),
  Stays)

p_party6_stage ==
  If(InMap(930000000), Do(<<Warp(930000100)>>, Through),
  If(InMap(930000100),
    If(Fact("getMap().getMonsters().size() = 0"), Do(<<Warp(930000200)>>, Through), Stays),
  If(InMap(930000200),
    If(AnyOf({Fact("getMap().getReactorByName('spine') = null"),
              Fact("getMap().getReactorByName('spine').getStat..")}),
      Do(<<Warp(930000300)>>, Through),
    Stays),
  Stays)))

p_party6_stage501 == Do(<<Warp(930000300)>>, Through)
p_party6_stage502 == Do(<<Warp(930000300)>>, Through)
p_party6_stage503 == Do(<<Warp(930000300)>>, Through)
p_party6_stage504 == Do(<<Warp(930000300)>>, Through)
p_party6_stage505 == Do(<<Warp(930000300)>>, Through)
p_party6_stage506 == Do(<<Warp(930000300)>>, Through)
p_party6_stage507 == Do(<<Warp(930000300)>>, Through)
p_party6_stage508 == Do(<<Warp(930000300)>>, Through)
p_party6_stage509 == Do(<<Warp(930000300)>>, Through)
p_party6_stage510 == Do(<<Warp(930000300)>>, Through)
p_party6_stage511 == Do(<<Warp(930000300)>>, Through)
p_party6_stage512 == Do(<<Warp(930000300)>>, Through)
p_party6_stage513 == Do(<<Warp(930000300)>>, Through)
p_party6_stage514 == Do(<<Warp(930000300)>>, Through)
p_party6_stage515 == Do(<<Warp(930000300)>>, Through)
p_Pianus == Do(<<Warp(230040420)>>, Through)
p_Pinkin == Do(<<Warp(270050100)>>, Through)

p_Populatus00 ==
  If(AllOf({Started(6361), Has(4031870, 1)}), Do(<<Warp(922020300)>>, Through),
  If(Completed(6361),
    If(Completed(6363),
      If(Fact("getParty() = null"), Stays,
      If(AllOf({Fact("isLeader()"), Fact("getEventManager('PapulatusBattle').getElig.."),
                Fact("the event has room")}),
        Do(<<Instance("PapulatusBattle")>>, Through),
      Stays)),
    Do(<<Warp(922020300)>>, Through)),
  If(Fact("getParty() = null"), Stays,
  If(AllOf({Fact("isLeader()"), Fact("getEventManager('PapulatusBattle').getElig.."),
            Fact("the event has room")}),
    Do(<<Instance("PapulatusBattle")>>, Through),
  Stays))))

p_PPinkOut == Do(<<Warp(270050000)>>, Through)
p_q2073 == If(Started(2073), Do(<<Warp(900000000)>>, Through), Stays)
p_q3366in == If(Started(3366), Do(<<Warp(926130101)>>, Through), Stays)
p_q3366out == Do(<<Warp(926130100)>>, Through)

p_q3367in ==
  If(Started(3367),
    Do(<<Given(Fact("getQuestProgress(3367,31) < getItemQuantit.."),
           <<GiveThe("4031797,(getQuestProgress(3367,31) - getIt..")>>),
         Warp(926130102)>>, Through),
  Stays)

p_q3367out == Do(<<Warp(926130100)>>, Through)
p_q3368in == If(Started(3368), Do(<<Warp(926130103)>>, Through), Stays)
p_q3368out == Do(<<Warp(926130100)>>, Through)

p_raid_rest ==
  If(AllOf({OfEvent("isEventLeader(getPlayer())"), OfEvent("getPlayerCount() >= 2")}), Stays,
  If(OfEvent("giveEventReward(getPlayer(),(((getMapId().."),
    Do(<<ToEvent("giveEventReward"), Warp(970030000)>>, Through),
  Do(<<ToEvent("giveEventReward")>>, Stays)))

p_raid_stage ==
  If(Fact("getMap().getMonsters().isEmpty()"),
    If(Fact("(getMapId() % 500) >= 100"), Do(<<WarpTo("(getMapId() + 100)")>>, Through),
    Do(<<WarpTo("(970030001 + floor(((getMapId() - 97003010..")>>, Through)),
  Stays)

p_raidout ==
  If(Fact("getSavedLocation('BOSSPQ') = -1"), Do(<<Warp(100000000)>>, Through),
  Do(<<WarpTo("getSavedLocation('BOSSPQ')")>>, Through))

p_rankDeveloperRoom == Stays

p_rankRoom ==
  If(AnyOf({InMap(130000000), InMap(130000200)}), Do(<<Warp(130000100)>>, Through),
  If(InMap(140010100), Do(<<Warp(140010110)>>, Through),
  If(InMap(120000101), Do(<<Warp(120000105)>>, Through),
  If(InMap(103000003), Do(<<Warp(103000008)>>, Through),
  If(InMap(100000201), Do(<<Warp(100000204)>>, Through),
  If(InMap(101000003), Do(<<Warp(101000004)>>, Through),
  Do(<<WarpTo("(getMapId() + 1)")>>, Through)))))))

p_reundodraco == Do(<<Block>>, Through)

p_rienCaveEnter ==
  If(AnyOf({Started(21201), Started(21302)}), Do(<<Warp(140030000)>>, Through), Stays)

p_rienTutor1 == If(Completed(21010), Do(<<Warp(140090200)>>, Through), Stays)
p_rienTutor2 == If(Completed(21011), Do(<<Warp(140090300)>>, Through), Stays)
p_rienTutor3 == If(Completed(21012), Do(<<Warp(140090400)>>, Through), Stays)
p_rienTutor4 == If(Completed(21013), Do(<<Warp(140090500)>>, Through), Stays)
p_rienTutor5 == Do(<<Block>>, Stays)
p_rienTutor6 == Do(<<Block>>, Through)

p_rienTutor7 ==
  If(Job(2000), If(Completed(21014), Do(<<Warp(140010100)>>, Through), Stays),
  Do(<<Warp(140010100)>>, Through))

p_rienTutor8 ==
  If(Job(2000),
    If(AnyOf({Started(21015), Started(21016), Started(21017)}), Stays,
    Do(<<Warp(140010000)>>, Through)),
  Do(<<Warp(140010000)>>, Through))

p_rnj12_in == Do(<<Warp(926100401)>>, Through)

p_rnj1_out ==
  If(OfEvent("getIntProperty('statusStg2') = 1"), Do(<<Warp(926100100)>>, Through), Stays)

p_rnj1_pt00 ==
  If(OfEvent("getIntProperty('statusStg1') = 1"), Do(<<Warp(926100001)>>, Through), Stays)

p_rnj2_out ==
  If(OfEvent("getIntProperty('statusStg3') = 3"), Do(<<Warp(926100200)>>, Through), Stays)

p_rnj3_in0 ==
  If(Fact("getMap().getReactorByName('rnj3_out1').get.."), Do(<<Warp(926100201)>>, Through),
  Stays)

p_rnj3_in1 ==
  If(Fact("getMap().getReactorByName('rnj3_out2').get.."), Do(<<Warp(926100202)>>, Through),
  Stays)

p_rnj3_out ==
  If(Fact("getMap().getReactorByName('rnj3_out3').get.."), Do(<<Warp(926100203)>>, Through),
  Stays)

p_rnj4_r1 ==
  If(OfEvent("((getIntProperty('statusStg5') >> 0) % 2).."),
    Do(<<ToEvent("setIntProperty statusStg5"), Warp(926100301)>>, Through),
  Stays)

p_rnj4_r2 ==
  If(OfEvent("((getIntProperty('statusStg5') >> 1) % 2).."),
    Do(<<ToEvent("setIntProperty statusStg5"), Warp(926100302)>>, Through),
  Stays)

p_rnj4_r3 ==
  If(OfEvent("((getIntProperty('statusStg5') >> 2) % 2).."),
    Do(<<ToEvent("setIntProperty statusStg5"), Warp(926100303)>>, Through),
  Stays)

p_rnj4_r4 ==
  If(OfEvent("((getIntProperty('statusStg5') >> 3) % 2).."),
    Do(<<ToEvent("setIntProperty statusStg5"), Warp(926100304)>>, Through),
  Stays)

p_rnj5_rp ==
  If(AllOf({OfEvent("(getPortal().getName().substring(2,4) % 10.."),
            Fact("floor((getPortal().getName().substring(2,4.."),
            OfEvent("getIntProperty('statusStg6') = 0")}),
    Do(<<ToEvent("setIntProperty statusStg6 1"), ToEvent("giveEventPlayersStageReward 6"),
         WarpTo("getMapId()")>>, Through),
  Do(<<WarpTo("getMapId()")>>, Through))

p_rnj6_out ==
  If(Fact("getMap().getReactorByName('rnj6_out').getS.."), Do(<<Warp(926100300)>>, Through),
  Stays)

p_rnj_201_0 ==
  If(Fact("getMap().getReactorByName('rnj31_out').get.."), Do(<<Warp(926100200)>>, Through),
  Stays)

p_rnj_202 ==
  If(Fact("getMap().getReactorByName('rnj32_out').get.."), Do(<<Warp(926100200)>>, Through),
  Stays)

p_rnj_exit == Do(<<Warp(261000011)>>, Through)

p_s4berserk ==
  If(AllOf({Started(6153), Has(4031475, 1), Fact("getWarpMap(910500200).countPlayers() = 0")}),
    Do(<<Call("resetMapObjects 910500200"), Call("getWarpMap(910500200).shuffleReactors"),
         Warp(910500200)>>, Through),
  Stays)

p_s4berserk_move ==
  If(Fact("getMap().countMonsters() = 0"), Do(<<Warp(910500200)>>, Through), Through)

p_s4common1_exit ==
  If(Has(4031495, 1), Do(<<Warp(921100301)>>, Through), Do(<<Warp(211040100)>>, Through))

p_s4firehawk ==
  If(AllOf({Started(6240), Fact("getWarpMap(921100200).countPlayers() = 0")}),
    Do(<<Call("resetMapObjects 921100200"), Warp(921100200)>>, Through),
  Stays)

p_s4hitman ==
  If(AllOf({Started(6201), Fact("getWarpMap(910200000).countPlayers() = 0")}),
    Do(<<Call("resetMapObjects 910200000"), Warp(910200000)>>, Through),
  Stays)

p_s4iceeagle ==
  If(AllOf({Started(6242), Fact("getWarpMap(921100210).countPlayers() = 0")}),
    Do(<<Call("resetMapObjects 921100210"), Warp(921100210)>>, Through),
  Stays)

p_s4mind_end ==
  If(OfEvent("isEventCleared()"),
    Do(<<Given(Started(6410), <<Call("setQuestProgress 6410 0 1")>>), Warp(925010400)>>, Through),
  Stays)

p_s4nest ==
  If(AnyOf({Started(6241), Started(6243)}),
    If(Fact("getWarpMap(924000100).countPlayers() = 0"),
      Do(<<Call("resetMapObjects 924000100"), Warp(924000100)>>, Through),
    Stays),
  Stays)

p_s4resur_enter == If(Started(6134), Do(<<Warp(922020000)>>, Through), Stays)

p_s4resur_out ==
  If(Started(6134),
    If(Room(4031448, 1), Do(<<Give(4031448, 1), Warp(220070400)>>, Through), Stays),
  Do(<<Warp(220070400)>>, Through))

p_s4resurrection ==
  If(AllOf({Has(4001108, 1), Fact("getWarpMap(923000100).countPlayers() = 0")}),
    Do(<<Call("resetMapObjects 923000100"), Warp(923000100)>>, Through),
  Stays)

p_s4rush ==
  If(AllOf({Started(6110), Fact("getWarpMap(910500100).countPlayers() = 0")}),
    Do(<<Call("resetMapObjects 910500100"), Warp(910500100)>>, Through),
  Stays)

p_s4ship_out ==
  If(OfEvent("getIntProperty('canLeave') = 0"), Stays,
  If(OfEvent("getIntProperty('canLeave') = 2"), Do(<<Warp(912010200)>>, Through),
  Do(<<Warp(120000101)>>, Through)))

p_s4super_out == p_s4ship_out

p_s4tornado_enter ==
  If(AnyOf({Started(6230), Started(6231), Has(4001110, 1)}),
    If(Fact("getWarpMap(922020200).countPlayers() = 0"),
      Do(<<Call("resetMapObjects 922020200"), Warp(922020200)>>, Through),
    Stays),
  Stays)

p_secretDoor ==
  If(Completed(3360), Do(<<Warp(261030000)>>, Through),
  If(Started(3360),
    If(Fact("getQuestProgress(3360,1) = 0"), Do(<<Npc(2111024)>>, Stays),
    Do(<<Warp(261030000)>>, Through)),
  Stays))

p_secretgate1_open ==
  If(Fact("getMap().getReactorByName('secretgate1').g.."), Do(<<Warp(990000611)>>, Through),
  Stays)

p_secretgate2_open ==
  If(Fact("getMap().getReactorByName('secretgate2').g.."), Do(<<Warp(990000631)>>, Through),
  Stays)

p_secretgate3_open ==
  If(Fact("getMap().getReactorByName('secretgate3').g.."), Do(<<Warp(990000641)>>, Through),
  Stays)

p_space_return == Do(<<WarpTo("getSavedLocation('EVENT')")>>, Through)

p_Spacegaga_out0 ==
  If(Fact("getEvents().get('rescueGaga').fallAndGet().."),
    Do(<<Call("getEvents().get('rescueGaga').fallAndGet"), Warp(922240200),
         WarpTo("getMapId()")>>, Through),
  Do(<<Call("getEvents().get('rescueGaga').fallAndGet"), WarpTo("getMapId()")>>, Through))

p_Spacegaga_out1 == p_Spacegaga_out0
p_Spacegaga_out2 == p_Spacegaga_out0
p_Spacegaga_out3 == p_Spacegaga_out0

p_speargate_open ==
  If(Fact("getMap().getReactorByName('speargate').get.."), Do(<<Warp(990000401)>>, Through),
  Stays)

p_stageBogo == Do(<<Warp(670010800)>>, Through)

p_statuegate_open ==
  If(Fact("getMap().getReactorByName('statuegate').ge.."), Do(<<Warp(990000301)>>, Through),
  Stays)

p_stonegate_open ==
  If(Fact("getMap().getReactorByName('stonegate').get.."), Do(<<Warp(990000430)>>, Through),
  Stays)

p_subway_in2 == Do(<<Warp(103000101)>>, Through)

p_tamepig_out2 ==
  Do(<<Unless(Fact("(haveItem(4031507,5) && haveItem(4031508,5.."),
         <<TakeAll(4031507), TakeAll(4031508)>>),
       Given(Fact("countItem(4031507) >= 6"),
         <<TakeThe("4031507,(-1 * (countItem(4031507) - 5))")>>),
       Given(Fact("countItem(4031508) >= 6"),
         <<TakeThe("4031508,(-1 * (countItem(4031508) - 5))")>>), Warp(230000003)>>, Through)

p_TD_Boss_enter ==
  If(AnyOf({Fact("getEventManager('TD_Battle{((floor((getMap.."), Fact("getParty() = null")}),
    Stays,
  If(AllOf({Fact("isLeader()"), Fact("getEventManager('TD_Battle{((floor((getMap..2"),
            Fact("the event has room")}),
    Do(<<Instance("TD_Battle")>>, Through),
  Stays))

p_TD_chat_enter == Do(<<Npc(2083006)>>, Stays)
p_TD_MC_Egate == Do(<<Warp(106021300)>>, Through)

p_TD_MC_enterboss1 ==
  If(Started(2330),
    If(Fact("((getQuestProgress(2330,3300005) + getQues.."), Do(<<Warp(106021401)>>, Through),
    If(InMap(106021402), If(Completed(2331), Do(<<Npc(1300013)>>, Through),
                         Do(<<Silent(1300013)>>, Through)),
    Do(<<Npc(1300013)>>, Through))),
  Do(<<Warp(106021401)>>, Through))

p_TD_MC_first ==
  If(AnyOf({Completed(2260), Started(2300), Completed(2300), Started(2301), Completed(2301),
            Started(2302), Completed(2302), Started(2303), Completed(2303), Started(2304),
            Completed(2304), Started(2305), Completed(2305), Started(2306), Completed(2306),
            Started(2307), Completed(2307), Started(2308), Completed(2308), Started(2309),
            Completed(2309), Started(2310), Completed(2310)}),
    Do(<<Warp(106020000)>>, Through),
  Stays)

p_TD_MC_jump == Do(<<Warp(106020501)>>, Through)
p_templeenter == Do(<<Warp(270000100)>>, Through)

p_thief_in1 ==
  If(AnyOf({Completed(20730), Completed(21734)}), Do(<<Warp(105040201)>>, Through),
  Do(<<Npc(1063011)>>, Stays))

p_treeboss00 ==
  If(AllOf({Has(4031942, 1), Has(4000385, 1)}), Do(<<Warp(541020800)>>, Through), Stays)

p_tristanEnter == If(Completed(2238), Do(<<Warp(105100101)>>, Through), Stays)

p_tutoChatNPC ==
  If(Fact("hasLevel30Character()"), Do(<<Silent(2007), Block>>, Through), Do(<<Block>>, Through))

p_tutorHelper == Do(<<Block>>, Through)

p_tutorialNPC ==
  If(Level(11), Stays,
  If(Job(0),
    If(InMap(120000101), Do(<<Npc(1090000)>>, Through),
    If(InMap(102000003), Do(<<Npc(1022000)>>, Through),
    If(InMap(103000003), Do(<<Npc(1052001)>>, Through),
    If(InMap(100000201), Do(<<Npc(1012100)>>, Through),
    If(InMap(101000003), Do(<<Npc(1032001)>>, Through), Stays))))),
  Stays))

p_tutorMinimap == Do(<<Block>>, Through)

p_tutorquest ==
  If(InMap(130030001), If(Started(20010), Do(<<Warp(130030002)>>, Through), Stays),
  If(InMap(130030002), If(Completed(20011), Do(<<Warp(130030003)>>, Through), Stays),
  If(InMap(130030003), If(Completed(20012), Do(<<Warp(130030004)>>, Through), Stays),
  If(AllOf({InMap(130030004), Completed(20013)}), Do(<<Warp(130030005)>>, Through), Stays))))

p_ulu_pt == Do(<<Warp(541020000)>>, Through)
p_under30gate == If(Level(31), Stays, Do(<<Warp(990000640)>>, Through))
p_undodraco == Do(<<Warp(240000110)>>, Through)

p_watergate_open ==
  If(Fact("getMap().getReactorByName('watergate').get.."), Do(<<Warp(990000600)>>, Through),
  Stays)

p_Zakum03 ==
  If(OfEvent("isEventCleared()"),
    If(OfEvent("gridCheck(getPlayer()) = -1"), Do(<<ToEvent("gridCheck")>>, Stays),
    Do(<<ToEvent("gridCheck"), Warp(211042300)>>, Through)),
  Stays)

p_Zakum05 ==
  If(AnyOf({Started(100200), Completed(100200)}),
    If(AllOf({Completed(100201), Has(4001017, 1)}), Do(<<Warp(211042400)>>, Through), Stays),
  Stays)
=============================================================================
