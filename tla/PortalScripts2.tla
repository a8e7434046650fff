--------------------------- MODULE PortalScripts2 ---------------------------
(***************************************************************************)
(* Tables of the scripts under scripts/portal: the portals from G to N.    *)
(* p_<name> is the function enter of the script <name>.js.                 *)
(***************************************************************************)
EXTENDS WorldScripts

p_gaga_success ==
  Do(<<Call("getEvents().get('rescueGaga').complete"),
       WarpTo("(922240100 + (getMapId() - 922240000))")>>, Through)

p_gendergo ==
  If(Fact("getPortal().getName() = 'female00'"),
    If(Fact("getGender() = 1"), Do(<<WarpTo("getMap().getId()")>>, Through), Stays),
  If(Fact("getGender() = 0"), Do(<<WarpTo("getMap().getId()")>>, Through), Stays))

p_ghostgate_open ==
  If(Fact("getMap().getReactorByName('ghostgate').get.."), Do(<<Warp(990000800)>>, Through),
  Stays)

p_glpqEnter == If(Has(3992041, 1), Do(<<Warp(610030020)>>, Through), Stays)

p_glpqPortal0 ==
  If(OfEvent("getIntProperty('glpq1') = 0"), Stays, Do(<<Warp(610030200)>>, Through))

p_glpqPortal00 == If(Fact("getJob().getJobNiche() = 1"), Do(<<Warp(610030510)>>, Through), Stays)
p_glpqPortal01 == If(Fact("getJob().getJobNiche() = 3"), Do(<<Warp(610030540)>>, Through), Stays)
p_glpqPortal02 == If(Fact("getJob().getJobNiche() = 2"), Do(<<Warp(610030521)>>, Through), Stays)
p_glpqPortal03 == If(Fact("getJob().getJobNiche() = 4"), Do(<<Warp(610030530)>>, Through), Stays)
p_glpqPortal04 == If(Fact("getJob().getJobNiche() = 5"), Do(<<Warp(610030550)>>, Through), Stays)

p_glpqPortal1 ==
  If(AllOf({InAnEvent, OfEvent("getIntProperty('glpq2') = 5")}), Do(<<Warp(610030300)>>, Through),
  Stays)

p_glpqPortal3 ==
  If(AllOf({InAnEvent, OfEvent("getIntProperty('glpq3') >= 5"),
            OfEvent("getIntProperty('glpq3_p') >= 5")}),
    Do(<<Warp(610030400)>>, Through),
  Stays)

p_glpqPortal4 ==
  If(AllOf({InAnEvent, OfEvent("getIntProperty('glpq4') >= 5")}),
    Do(<<Warp(610030500)>>, Through),
  Stays)

p_glpqPortal5 ==
  If(AllOf({InAnEvent, OfEvent("getIntProperty('glpq5') >= 5")}),
    Do(<<Warp(610030600)>>, Through),
  Stays)

p_glpqPortal6 ==
  If(AllOf({InAnEvent, OfEvent("getIntProperty('glpq6') >= 3")}),
    Do(<<Warp(610030700)>>, Through),
  Stays)

p_glpqPortal7 == Do(<<Warp(610030800)>>, Through)

p_glpqPortalDummy ==
  If(Fact("getMap().getReactorByName('mob0').getState.."), Stays,
  Do(<<Call("getMap().getReactorByName('mob0').forceHit.."), ToEvent("setIntProperty glpq1 1"),
       Warp(610030100), ToEvent("giveEventPlayersStageReward 1")>>, Through))

p_glTutoMsg0 == Do(<<Enable>>, Through)
p_gotoAni == If(Started(3147), Do(<<Warp(211061100)>>, Through), Stays)
p_gotocastle == If(Completed(2324), Do(<<Warp(106020501)>>, Through), Stays)

p_gotoNext1 ==
  If(AnyOf({Started(3140), Completed(3140)}), Do(<<Warp(211060300)>>, Through),
  If(Completed(3164), Do(<<Npc(2161002)>>, Stays), Stays))

p_gotoNext2_1 ==
  If(AnyOf({Started(3141), Completed(3140)}), Do(<<Warp(211060500)>>, Through),
  If(Completed(3139), Do(<<Npc(2161002)>>, Stays), Stays))

p_gotoNext2_2 ==
  If(AnyOf({Started(3141), Completed(3140)}), Do(<<Warp(211060410)>>, Through),
  If(Completed(3139), Do(<<Npc(2161002)>>, Stays), Stays))

p_gotoNext3_1 ==
  If(Completed(3141), Do(<<Warp(211060700)>>, Through),
  If(Completed(3140), Do(<<Npc(2161002)>>, Stays), Stays))

p_gotoNext3_2 ==
  If(Completed(3141), Do(<<Warp(211060610)>>, Through),
  If(Completed(3140), Do(<<Npc(2161002)>>, Stays), Stays))

p_gotoNext3_3 ==
  If(Completed(3141), Do(<<Warp(211060620)>>, Through),
  If(Completed(3140), Do(<<Npc(2161002)>>, Stays), Stays))

p_gotoNext4 ==
  If(Started(3143), Do(<<Call("setQuestProgress 3143 1"), Warp(211060800)>>, Through),
  If(Completed(3141), Do(<<Warp(211060800)>>, Stays), Stays))

p_gryphius == Do(<<Warp(240020101)>>, Through)
p_guild1F00 == Do(<<ToEvent("gridCheck"), Warp(990000600)>>, Through)
p_guild1F01 == Do(<<ToEvent("gridInsert 0"), Warp(990000700)>>, Through)
p_guild1F02 == Do(<<ToEvent("gridInsert 1"), Warp(990000700)>>, Through)
p_guild1F03 == Do(<<ToEvent("gridInsert 3"), Warp(990000700)>>, Through)
p_guild1F04 == Do(<<ToEvent("gridInsert 2"), Warp(990000700)>>, Through)

p_guildwaitingenter ==
  If(OfEvent("ceil(((getProperty('entryTimestamp') - Dat.."), Do(<<Call("Date.now")>>, Stays),
  Do(<<Call("Date.now"), Warp(990000100)>>, Through))

p_guildwaitingexit == Do(<<Warp(101030104)>>, Through)

p_guyfawkes0_esc ==
  If(OfEvent("getIntProperty('statusStg1') = 1"), Do(<<Warp(674030200)>>, Through), Stays)

p_guyfawkes0_floor == Do(<<Warp(674030000)>>, Through)
p_halloween_enter == Do(<<Warp(682000100)>>, Through)
p_halloween_Omni1 == Through

p_hontale_Bopen ==
  If(InMap(240050101),
    If(OfEvent("getProperty('1stageclear') = null"), Stays,
    Do(<<WarpTo("getEventInstance().getMapInstance(240050102)")>>, Through)),
  If(InMap(240050102),
    If(OfEvent("getProperty('2stageclear') = null"), Stays,
    Do(<<WarpTo("getEventInstance().getMapInstance(240050103)")>>, Through)),
  If(InMap(240050103),
    If(OfEvent("getProperty('3stageclear') = null"), Stays,
    Do(<<WarpTo("getEventInstance().getMapInstance(240050104)")>>, Through)),
  If(InMap(240050104),
    If(OfEvent("getProperty('4stageclear') = null"), Stays,
    Do(<<WarpTo("getEventInstance().getMapInstance(240050105)")>>, Through)),
  If(InMap(240050105),
    If(OfEvent("getProperty('5stageclear') = null"),
      If(AllOf({Has(4001092, 1), Fact("isEventLeader()")}),
        Do(<<WarpTo("getEventInstance().getMapInstance(240050100)"),
             ToEvent("setIntProperty 5stageclear 1")>>, Through),
      Stays),
    Do(<<WarpTo("getEventInstance().getMapInstance(240050100)")>>, Through)),
  Through)))))

p_hontale_BR ==
  If(InMap(240060000),
    If(Fact("getMap().countMonsters() = 0"), Do(<<Warp(240060100)>>, Through), Stays),
  If(AllOf({InMap(240060100), Fact("getMap().countMonsters() = 0")}),
    Do(<<Warp(240060200)>>, Through),
  Stays))

p_hontale_BtoB1 ==
  If(AnyOf({Fact("getMap().countPlayers() = 1"), Has(4001087, 1)}), Stays,
  Do(<<Warp(240050101)>>, Through))

p_hontale_C ==
  If(Fact("isEventLeader()"),
    If(Fact("getMap().getReactorByName('light').getStat.."), Do(<<Warp(240050300)>>, Through),
    If(Fact("getMap().getReactorByName('light').getStat..2"), Do(<<Warp(240050310)>>, Through),
    Stays)),
  Stays)

p_hontale_morph2 == Do(<<Warp(240040600)>>, Through)
p_hontale_out1 == Do(<<Warp(240050400)>>, Through)
p_in2159011 == Do(<<Silent(2159011)>>, Through)
p_in_xmas_party == Do(<<Warp(209000100)>>, Stays)

p_inDragonEgg ==
  If(Started(22005), Do(<<Warp(900020100)>>, Through), Do(<<Warp(100030301)>>, Through))

p_inERShip == Do(<<Warp(101000400)>>, Through)
p_infoAttack == Do(<<Block>>, Through)
p_infoMinimap == Do(<<Block>>, Through)
p_infoPickup == Do(<<Block>>, Through)
p_infoReactor == Do(<<Block>>, Through)
p_infoSkill == Do(<<Block>>, Through)
p_infoWorldmap == Do(<<Block>>, Through)
p_inNix1 == Do(<<Warp(240020600)>>, Through)
p_inNix2 == Do(<<Warp(240020600)>>, Through)
p_jail_in == Do(<<Warp(300000012)>>, Through)
p_jail_out == If(Fact("getJailTimeLeft() >= 1"), Stays, Do(<<Warp(300000010)>>, Through))
p_jnr12_in == Do(<<Warp(926110401)>>, Through)

p_jnr1_out ==
  If(OfEvent("getIntProperty('statusStg2') = 1"), Do(<<Warp(926110100)>>, Through), Stays)

p_jnr1_pt00 ==
  If(OfEvent("getIntProperty('statusStg1') = 1"), Do(<<Warp(926110001)>>, Through), Stays)

p_jnr2_out ==
  If(OfEvent("getIntProperty('statusStg3') = 3"), Do(<<Warp(926110200)>>, Through), Stays)

p_jnr3_in0 ==
  If(Fact("getMap().getReactorByName('jnr3_out1').get.."), Do(<<Warp(926110201)>>, Through),
  Stays)

p_jnr3_in1 ==
  If(Fact("getMap().getReactorByName('jnr3_out2').get.."), Do(<<Warp(926110202)>>, Through),
  Stays)

p_jnr3_out ==
  If(Fact("getMap().getReactorByName('jnr3_out3').get.."), Do(<<Warp(926110203)>>, Through),
  Stays)

p_jnr4_r1 ==
  If(OfEvent("((getIntProperty('statusStg5') >> 0) % 2).."),
    Do(<<ToEvent("setIntProperty statusStg5"), Warp(926110301)>>, Through),
  Stays)

p_jnr4_r2 ==
  If(OfEvent("((getIntProperty('statusStg5') >> 1) % 2).."),
    Do(<<ToEvent("setIntProperty statusStg5"), Warp(926110302)>>, Through),
  Stays)

p_jnr4_r3 ==
  If(OfEvent("((getIntProperty('statusStg5') >> 2) % 2).."),
    Do(<<ToEvent("setIntProperty statusStg5"), Warp(926110303)>>, Through),
  Stays)

p_jnr4_r4 ==
  If(OfEvent("((getIntProperty('statusStg5') >> 3) % 2).."),
    Do(<<ToEvent("setIntProperty statusStg5"), Warp(926110304)>>, Through),
  Stays)

p_jnr5_rp ==
  If(OfEvent("getProperty('stage6_comb{(getMapId() % 10).."),
    If(AllOf({OfEvent("(getPortal().getName().substring(2,4) % 10.."),
              Fact("floor((getPortal().getName().substring(2,4.."),
              OfEvent("getIntProperty('statusStg6') = 0")}),
      Do(<<ToEvent("setProperty"), ToEvent("setIntProperty statusStg6 1"),
           ToEvent("giveEventPlayersStageReward 6"), WarpTo("getMapId()")>>, Through),
    Do(<<ToEvent("setProperty"), WarpTo("getMapId()")>>, Through)),
  If(AllOf({OfEvent("(getPortal().getName().substring(2,4) % 10.."),
            Fact("floor((getPortal().getName().substring(2,4.."),
            OfEvent("getIntProperty('statusStg6') = 0")}),
    Do(<<ToEvent("setIntProperty statusStg6 1"), ToEvent("giveEventPlayersStageReward 6"),
         WarpTo("getMapId()")>>, Through),
  Do(<<WarpTo("getMapId()")>>, Through)))

p_jnr6_out ==
  If(Fact("getMap().getReactorByName('jnr6_out').getS.."), Do(<<Warp(926110300)>>, Through),
  Stays)

p_jnr_201_0 ==
  If(Fact("getMap().getReactorByName('jnr31_out').get.."), Do(<<Warp(926110200)>>, Through),
  Stays)

p_jnr_202 ==
  If(Fact("getMap().getReactorByName('jnr32_out').get.."), Do(<<Warp(926110200)>>, Through),
  Stays)

p_jnr_exit == Do(<<Warp(261000021)>>, Through)

p_kinggate2_open ==
  If(Fact("getMap().getReactorByName('kinggate').getS.."), Do(<<Warp(990000900)>>, Through),
  Stays)

p_kinggate_open == p_kinggate2_open

p_kpq0 ==
  If(OfEvent("getProperty('1stageclear') = null"), Stays,
  Do(<<WarpTo("getEventInstance().getMapInstance(103000801)")>>, Through))

p_kpq1 ==
  If(OfEvent("getProperty('2stageclear') = null"), Stays,
  Do(<<WarpTo("getEventInstance().getMapInstance(103000802)")>>, Through))

p_kpq2 ==
  If(OfEvent("getProperty('3stageclear') = null"), Stays,
  Do(<<WarpTo("getEventInstance().getMapInstance(103000803)")>>, Through))

p_kpq3 ==
  If(OfEvent("getProperty('4stageclear') = null"), Stays,
  Do(<<WarpTo("getEventInstance().getMapInstance(103000804)")>>, Through))

p_kpq4 ==
  If(OfEvent("getProperty('5stageclear') = null"), Stays,
  Do(<<WarpTo("getEventInstance().getMapInstance(103000805)")>>, Through))

p_lionCastle_enter ==
  If(AnyOf({Fact("getLevel >= 115"), Fact("isGM()")}), Do(<<Warp(211060010)>>, Stays), Stays)

p_lpq0 ==
  If(OfEvent("getProperty('1stageclear') = null"), Stays,
  Do(<<WarpTo("getEventInstance().getMapInstance(922010200)")>>, Through))

p_lpq1 ==
  If(OfEvent("getProperty('2stageclear') = null"), Stays,
  Do(<<WarpTo("getEventInstance().getMapInstance(922010300)")>>, Through))

p_lpq2 ==
  If(OfEvent("getProperty('3stageclear') = null"), Stays,
  Do(<<WarpTo("getEventInstance().getMapInstance(922010400)")>>, Through))

p_lpq3 ==
  If(OfEvent("getProperty('4stageclear') = null"), Stays,
  Do(<<WarpTo("getEventInstance().getMapInstance(922010500)")>>, Through))

p_lpq4 ==
  If(OfEvent("getProperty('5stageclear') = null"), Stays,
  Do(<<WarpTo("getEventInstance().getMapInstance(922010600)")>>, Through))

p_lpq5 ==
  If(OfEvent("getProperty('5stageclear') = null"), Stays,
  If(OfEvent("getProperty('6stageclear') = null"),
    Do(<<ToEvent("setProperty 6stageclear true"),
         WarpTo("getEventInstance().getMapInstance(922010700)")>>, Through),
  Do(<<WarpTo("getEventInstance().getMapInstance(922010700)")>>, Through)))

p_lpq6 ==
  If(OfEvent("getProperty('7stageclear') = null"), Stays,
  Do(<<WarpTo("getEventInstance().getMapInstance(922010800)")>>, Through))

p_lpq7 ==
  If(OfEvent("getProperty('8stageclear') = null"), Stays,
  Do(<<WarpTo("getEventInstance().getMapInstance(922010900)")>>, Through))

p_magatia_alc0 ==
  If(Started(3309),
    If(Has(4031708, 1), Do(<<Warp(261020700)>>, Through), Do(<<Warp(926120000)>>, Through)),
  Do(<<Warp(261020700)>>, Through))

p_magatia_dark0 == If(Completed(7770), Do(<<Warp(926130000)>>, Through), Stays)
p_male00 == If(Fact("getGender() = 0"), Do(<<Warp(670010200)>>, Through), Stays)
p_mapleMarket7_out == Do(<<WarpTo("getSavedLocation('EVENT')")>>, Through)
p_mapleTree_out == Do(<<WarpTo("getSavedLocation('MIRROR')")>>, Through)

p_market00 ==
  If(Fact("isCheater()"),
    If(Fact("getClient().getChannel() = 4"),
      Do(<<WarpTo("getSavedLocation('FREE_MARKET')")>>, Through),
    Stays),
  Do(<<WarpTo("getSavedLocation('FREE_MARKET')")>>, Through))

p_market01 ==
  If(InMap(910000000), Stays, Do(<<Call("saveLocation FREE_MARKET"), Warp(910000000)>>, Through))

p_market02 == p_market01
p_market03 == p_market01
p_market04 == p_market01
p_market05 == p_market01
p_market06 == p_market01
p_market07 == p_market01
p_market08 == p_market01
p_market09 == p_market01
p_market10 == p_market01
p_market11 == p_market01
p_market12 == p_market01
p_market13 == p_market01
p_market14 == p_market01
p_market15 == p_market01
p_market16 == p_market01
p_market17 == p_market01
p_market18 == p_market01
p_market19 == p_market01
p_market20 == p_market01
p_market21 == p_market01
p_market22 == p_market01
p_market23 == p_market01
p_market24 == p_market01
p_market26 == p_market01
p_market52 == p_market01
p_market53 == p_market01
p_market54 == p_market01
p_market55 == p_market01
p_market56 == p_market01
p_Masteria_B1_1 == If(Has(3992040, 1), Do(<<Warp(610010005)>>, Through), Stays)
p_Masteria_B2_1 == If(Has(3992040, 1), Do(<<Warp(610010005)>>, Through), Stays)
p_Masteria_B3_1 == If(Has(3992040, 1), Do(<<Warp(610010005)>>, Through), Stays)
p_Masteria_CC1_A == Do(<<Warp(610020015)>>, Through)
p_Masteria_CC6_A == Do(<<Warp(610020010)>>, Through)
p_Masteria_CM1_A == If(Has(3992039, 1), Do(<<Warp(610020000)>>, Stays), Through)
p_Masteria_CM1_B == If(Has(3992039, 1), Do(<<Warp(610020000)>>, Stays), Through)
p_Masteria_CM1_C == If(Has(3992039, 1), Do(<<Warp(610020000)>>, Stays), Through)
p_Masteria_CM1_D == If(Has(3992039, 1), Do(<<Warp(610020000)>>, Stays), Through)
p_Masteria_CM2_B == If(Has(3992039, 1), Do(<<Warp(610020001)>>, Stays), Through)
p_Masteria_CM2_C == If(Has(3992039, 1), Do(<<Warp(610020001)>>, Stays), Through)
p_Masteria_CM2_D == If(Has(3992039, 1), Do(<<Warp(610020001)>>, Stays), Through)
p_Masteria_CM2_E == If(Has(3992039, 1), Do(<<Warp(610020001)>>, Stays), Through)
p_Masteria_U2_1 == If(Has(3992040, 1), Do(<<Warp(610010004)>>, Stays), Through)
p_Masteria_U3_1 == If(Has(3992040, 1), Do(<<Warp(610010201)>>, Stays), Through)
p_Masteria_U5_1 == If(Has(3992040, 1), Do(<<Warp(610010001)>>, Stays), Through)
p_Masteria_U5_2 == If(Has(3992040, 1), Do(<<Warp(610010004)>>, Stays), Through)
p_Masteria_U6_1 == If(Has(3992040, 1), Do(<<Warp(610010002)>>, Stays), Through)
p_mayong == Do(<<Warp(240020401)>>, Through)
p_MC2revive == Do(<<WarpTo("(getMapId() - 100)")>>, Through)

p_mc_out ==
  If(Fact("getSavedLocation('MONSTER_CARNIVAL') >= 0"),
    Do(<<WarpTo("getClient().getChannelServer().getMapFacto..")>>, Through),
  Do(<<WarpTo("getClient().getChannelServer().getMapFacto..2")>>, Through))

p_MCRevive1 == Do(<<Warp(980000101)>>, Through)
p_MCRevive2 == Do(<<Warp(980000201)>>, Through)
p_MCRevive3 == Do(<<Warp(980000301)>>, Through)
p_MCRevive4 == Do(<<Warp(980000401)>>, Through)
p_MCRevive5 == Do(<<Warp(980000501)>>, Through)
p_MCRevive6 == Do(<<Warp(980000601)>>, Through)
p_MD_cakeEnter == Do(<<Warp(674030100)>>, Through)

p_MD_drakeroom ==
  If(InMap(105090311),
    If(AnyOf({Fact("getParty() = null"), Fact("isLeader()")}),
      If(Fact("a mini-dungeon is free"), Do(<<Warp(105090320)>>, Through), Stays),
    Stays),
  Do(<<Warp(105090311)>>, Through))

p_MD_error ==
  If(InMap(261020300),
    If(AnyOf({Fact("getParty() = null"), Fact("isLeader()")}),
      If(Fact("a mini-dungeon is free"), Do(<<Warp(261020301)>>, Through), Stays),
    Stays),
  Do(<<Warp(261020300)>>, Through))

p_MD_golem ==
  If(InMap(105040304),
    If(AnyOf({Fact("getParty() = null"), Fact("isLeader()")}),
      If(Fact("a mini-dungeon is free"), Do(<<Warp(105040320)>>, Through), Stays),
    Stays),
  Do(<<Warp(105040304)>>, Through))

p_MD_high ==
  If(InMap(551030000),
    If(AnyOf({Fact("getParty() = null"), Fact("isLeader()")}),
      If(Fact("a mini-dungeon is free"), Do(<<Warp(551030001)>>, Through), Stays),
    Stays),
  Do(<<Warp(551030000)>>, Through))

p_MD_mushroom ==
  If(InMap(105050100),
    If(AnyOf({Fact("getParty() = null"), Fact("isLeader()")}),
      If(Fact("a mini-dungeon is free"), Do(<<Warp(105050101)>>, Through), Stays),
    Stays),
  Do(<<Warp(105050100)>>, Through))

p_MD_pig ==
  If(InMap(100020000),
    If(AnyOf({Fact("getParty() = null"), Fact("isLeader()")}),
      If(Fact("a mini-dungeon is free"), Do(<<Warp(100020100)>>, Through), Stays),
    Stays),
  Do(<<Warp(100020000)>>, Through))

p_MD_protect ==
  If(InMap(240040520),
    If(AnyOf({Fact("getParty() = null"), Fact("isLeader()")}),
      If(Fact("a mini-dungeon is free"), Do(<<Warp(240040900)>>, Through), Stays),
    Stays),
  Do(<<Warp(240040520)>>, Through))

p_MD_rabbit ==
  If(InMap(221023400),
    If(AnyOf({Fact("getParty() = null"), Fact("isLeader()")}),
      If(Fact("a mini-dungeon is free"), Do(<<Warp(221023401)>>, Through), Stays),
    Stays),
  Do(<<Warp(221023400)>>, Through))

p_MD_remember ==
  If(InMap(240040511),
    If(AnyOf({Fact("getParty() = null"), Fact("isLeader()")}),
      If(Fact("a mini-dungeon is free"), Do(<<Warp(240040800)>>, Through), Stays),
    Stays),
  Do(<<Warp(240040511)>>, Through))

p_MD_roundTable ==
  If(InMap(240020500),
    If(AnyOf({Fact("getParty() = null"), Fact("isLeader()")}),
      If(Fact("a mini-dungeon is free"), Do(<<Warp(240020512)>>, Through), Stays),
    Stays),
  Do(<<Warp(240020500)>>, Through))

p_MD_sand ==
  If(InMap(260020600),
    If(AnyOf({Fact("getParty() = null"), Fact("isLeader()")}),
      If(Fact("a mini-dungeon is free"), Do(<<Warp(260020630)>>, Through), Stays),
    Stays),
  Do(<<Warp(260020600)>>, Through))

p_MD_treasure ==
  If(InMap(251010402),
    If(AnyOf({Fact("getParty() = null"), Fact("isLeader()")}),
      If(Fact("a mini-dungeon is free"), Do(<<Warp(251010410)>>, Through), Stays),
    Stays),
  Do(<<Warp(251010402)>>, Through))

p_met_in == Do(<<Warp(103000103)>>, Through)

p_met_out ==
  If(Fact("getSavedLocation('MIRROR') = -1"), Do(<<Warp(102040000)>>, Through),
  Do(<<WarpTo("getSavedLocation('MIRROR')")>>, Through))

p_metalgate_open ==
  If(Fact("getMap().getReactorByName('metalgate').get.."), Do(<<Warp(990000431)>>, Through),
  Stays)

p_metro_Chat00 == Breaks

\* In two maps of his own the NPC sends the player out instead.
p_metro_in00 ==
  If(InMap(910320001), Do(<<Silent(1052115), Warp(910320000)>>, Through),
  If(AllOf({InMap(910330001), Room(4001321, 1)}), Do(<<Silent(1052115), Warp(910320000)>>, Through),
  Do(<<Npc(1052115)>>, Through)))

p_minar_elli ==
  If(Has(4031346, 1),
    If(InMap(240010100), Do(<<Take(4031346, 1), Warp(101010000)>>, Through),
    If(InMap(101010000), Do(<<Take(4031346, 1), Warp(240010100)>>, Through), Through)),
  Stays)

p_minar_job4 == Do(<<Warp(240010501)>>, Through)

p_mirtalk00 ==
  If(Fact("containsAreaInfo(22013,'dt00=o')"), Do(<<Block>>, Stays),
  Do(<<Block, Call("updateAreaInfo 22013")>>, Through))

p_mirtalk01 ==
  If(Fact("containsAreaInfo(22013,'dt01=o')"), Do(<<Block>>, Stays),
  Do(<<Block, Call("updateAreaInfo 22013")>>, Through))

p_move_elin == Do(<<Warp(300000100)>>, Through)
p_moveBefore == Do(<<WarpTo("(getMapId() - 10)")>>, Through)
p_moveNext == Do(<<WarpTo("(getMapId() + 10)")>>, Through)
p_nets_in == Do(<<Call("saveLocation MIRROR"), Warp(926010000)>>, Through)
p_nets_out == Do(<<WarpTo("getSavedLocation('MIRROR')")>>, Through)
p_NextMap == Do(<<WarpTo("(getMapId() + 100)")>>, Through)
p_ninja_Boss == Do(<<Warp(800040410)>>, Through)
=============================================================================
