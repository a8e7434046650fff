------------------------------ MODULE MCPortals -----------------------------
\* All the tables of portals and maps, and the scripts known to break one of the promises.
EXTENDS PortalsProofs, MapScripts, PortalScripts1, PortalScripts2, PortalScripts3

MCPortalTables ==
  [p_08_xmas_out |-> p_08_xmas_out, p_1stTower_out |-> p_1stTower_out,
    p_1stTowerTop |-> p_1stTowerTop, p_2ndTower_out |-> p_2ndTower_out,
    p_2ndTowerTop |-> p_2ndTowerTop, p_3rdTower_out |-> p_3rdTower_out,
    p_3rdTowerTop |-> p_3rdTowerTop, p_advice00 |-> p_advice00, p_advice01 |-> p_advice01,
    p_advice02 |-> p_advice02, p_advice03 |-> p_advice03, p_advice04 |-> p_advice04,
    p_advice05 |-> p_advice05, p_advice06 |-> p_advice06, p_advice07 |-> p_advice07,
    p_advice08 |-> p_advice08, p_advice09 |-> p_advice09, p_adviceMap |-> p_adviceMap,
    p_aMatchMove2 |-> p_aMatchMove2, p_apq00 |-> p_apq00, p_apq01 |-> p_apq01,
    p_apq02 |-> p_apq02, p_apq1 |-> p_apq1, p_apq2 |-> p_apq2, p_apq3 |-> p_apq3,
    p_apqClosed |-> p_apqClosed, p_apqDoor |-> p_apqDoor, p_aqua_pq_boss_0 |-> p_aqua_pq_boss_0,
    p_aranTutorAloneX |-> p_aranTutorAloneX, p_aranTutorArrow0 |-> p_aranTutorArrow0,
    p_aranTutorArrow1 |-> p_aranTutorArrow1, p_aranTutorArrow2 |-> p_aranTutorArrow2,
    p_aranTutorArrow3 |-> p_aranTutorArrow3, p_aranTutorGuide0 |-> p_aranTutorGuide0,
    p_aranTutorGuide1 |-> p_aranTutorGuide1, p_aranTutorGuide2 |-> p_aranTutorGuide2,
    p_aranTutorLost |-> p_aranTutorLost, p_aranTutorMono0 |-> p_aranTutorMono0,
    p_aranTutorMono1 |-> p_aranTutorMono1, p_aranTutorMono2 |-> p_aranTutorMono2,
    p_aranTutorMono3 |-> p_aranTutorMono3, p_aranTutorOut1 |-> p_aranTutorOut1,
    p_aranTutorOut2 |-> p_aranTutorOut2, p_aranTutorOut3 |-> p_aranTutorOut3,
    p_ariant_Agit |-> p_ariant_Agit, p_ariant_castle |-> p_ariant_castle,
    p_ariant_queens |-> p_ariant_queens, p_ariantMout |-> p_ariantMout,
    p_ariantMout2 |-> p_ariantMout2, p_babyPigOut |-> p_babyPigOut, p_balog_end |-> p_balog_end,
    p_balogTemple |-> p_balogTemple, p_bedroom_out |-> p_bedroom_out,
    p_beginnerTut1 |-> p_beginnerTut1, p_cannon_tuto_06 |-> p_cannon_tuto_06,
    p_cannon_tuto_07 |-> p_cannon_tuto_07, p_cannon_tuto_09 |-> p_cannon_tuto_09,
    p_cannon_tuto_10 |-> p_cannon_tuto_10, p_captinsg00 |-> p_captinsg00,
    p_catPriest_map |-> p_catPriest_map, p_contactDragon |-> p_contactDragon,
    p_dangerousRoof |-> p_dangerousRoof, p_davy2_hd1 |-> p_davy2_hd1, p_davy3_hd1 |-> p_davy3_hd1,
    p_davy_next1 |-> p_davy_next1, p_Depart_goBack00 |-> p_Depart_goBack00,
    p_Depart_goBack01 |-> p_Depart_goBack01, p_Depart_goFoward0 |-> p_Depart_goFoward0,
    p_Depart_goFoward1 |-> p_Depart_goFoward1, p_Depart_ToKerning |-> p_Depart_ToKerning,
    p_Depart_TopFloor |-> p_Depart_TopFloor, p_Depart_topOut |-> p_Depart_topOut,
    p_dojang_exit |-> p_dojang_exit, p_dojang_tuto |-> p_dojang_tuto, p_dracoout |-> p_dracoout,
    p_DragonEggNotice |-> p_DragonEggNotice, p_dragoneyes |-> p_dragoneyes,
    p_dragonNest |-> p_dragonNest, p_EBoat1 |-> p_EBoat1, p_EBoat2 |-> p_EBoat2,
    p_elevator |-> p_elevator, p_eliza_Garden |-> p_eliza_Garden, p_end_cow |-> p_end_cow,
    p_enter_earth00 |-> p_enter_earth00, p_enter_earth01 |-> p_enter_earth01,
    p_enter_nautil |-> p_enter_nautil, p_enter_td |-> p_enter_td, p_enterAchter |-> p_enterAchter,
    p_enterBackStreet |-> p_enterBackStreet, p_enterDisguise0 |-> p_enterDisguise0,
    p_enterDisguise1 |-> p_enterDisguise1, p_enterDisguise2 |-> p_enterDisguise2,
    p_enterDisguise3 |-> p_enterDisguise3, p_enterDisguise4 |-> p_enterDisguise4,
    p_enterDisguise5 |-> p_enterDisguise5, p_enterDollcave |-> p_enterDollcave,
    p_enterDollWay |-> p_enterDollWay, p_enterEvanRoom |-> p_enterEvanRoom,
    p_enterFirstDH |-> p_enterFirstDH, p_enterfourthDH |-> p_enterfourthDH,
    p_enterGym |-> p_enterGym, p_enterInfo |-> p_enterInfo,
    p_enterMagiclibrar |-> p_enterMagiclibrar, p_enterNepenthes |-> p_enterNepenthes,
    p_enterPort |-> p_enterPort, p_enterRider |-> p_enterRider,
    p_enterRienFirst |-> p_enterRienFirst, p_enterSecondDH |-> p_enterSecondDH,
    p_enterthirdDH |-> p_enterthirdDH, p_entertraining |-> p_entertraining,
    p_enterWarehouse |-> p_enterWarehouse, p_enterWitch |-> p_enterWitch,
    p_evanEntrance |-> p_evanEntrance, p_evanFall |-> p_evanFall, p_evanFarmCT |-> p_evanFarmCT,
    p_evanGarden0 |-> p_evanGarden0, p_evanGarden1 |-> p_evanGarden1,
    p_evanlivingRoom |-> p_evanlivingRoom, p_evanRoom0 |-> p_evanRoom0,
    p_evanRoom1 |-> p_evanRoom1, p_evantalk00 |-> p_evantalk00, p_evantalk01 |-> p_evantalk01,
    p_evantalk02 |-> p_evantalk02, p_evantalk10 |-> p_evantalk10, p_evantalk11 |-> p_evantalk11,
    p_evantalk20 |-> p_evantalk20, p_evantalk21 |-> p_evantalk21, p_evantalk40 |-> p_evantalk40,
    p_evantalk41 |-> p_evantalk41, p_evantalk42 |-> p_evantalk42, p_evantalk50 |-> p_evantalk50,
    p_evantalk60 |-> p_evantalk60, p_exit_puppeteer |-> p_exit_puppeteer,
    p_female00 |-> p_female00, p_fishing_out |-> p_fishing_out, p_foxLaidy_map |-> p_foxLaidy_map,
    p_gaga_success |-> p_gaga_success, p_gendergo |-> p_gendergo,
    p_ghostgate_open |-> p_ghostgate_open, p_glpqEnter |-> p_glpqEnter,
    p_glpqPortal0 |-> p_glpqPortal0, p_glpqPortal00 |-> p_glpqPortal00,
    p_glpqPortal01 |-> p_glpqPortal01, p_glpqPortal02 |-> p_glpqPortal02,
    p_glpqPortal03 |-> p_glpqPortal03, p_glpqPortal04 |-> p_glpqPortal04,
    p_glpqPortal1 |-> p_glpqPortal1, p_glpqPortal3 |-> p_glpqPortal3,
    p_glpqPortal4 |-> p_glpqPortal4, p_glpqPortal5 |-> p_glpqPortal5,
    p_glpqPortal6 |-> p_glpqPortal6, p_glpqPortal7 |-> p_glpqPortal7,
    p_glpqPortalDummy |-> p_glpqPortalDummy, p_glTutoMsg0 |-> p_glTutoMsg0,
    p_gotoAni |-> p_gotoAni, p_gotocastle |-> p_gotocastle, p_gotoNext1 |-> p_gotoNext1,
    p_gotoNext2_1 |-> p_gotoNext2_1, p_gotoNext2_2 |-> p_gotoNext2_2,
    p_gotoNext3_1 |-> p_gotoNext3_1, p_gotoNext3_2 |-> p_gotoNext3_2,
    p_gotoNext3_3 |-> p_gotoNext3_3, p_gotoNext4 |-> p_gotoNext4, p_gryphius |-> p_gryphius,
    p_guild1F00 |-> p_guild1F00, p_guild1F01 |-> p_guild1F01, p_guild1F02 |-> p_guild1F02,
    p_guild1F03 |-> p_guild1F03, p_guild1F04 |-> p_guild1F04,
    p_guildwaitingenter |-> p_guildwaitingenter, p_guildwaitingexit |-> p_guildwaitingexit,
    p_guyfawkes0_esc |-> p_guyfawkes0_esc, p_guyfawkes0_floor |-> p_guyfawkes0_floor,
    p_halloween_enter |-> p_halloween_enter, p_halloween_Omni1 |-> p_halloween_Omni1,
    p_hontale_Bopen |-> p_hontale_Bopen, p_hontale_BR |-> p_hontale_BR,
    p_hontale_BtoB1 |-> p_hontale_BtoB1, p_hontale_C |-> p_hontale_C,
    p_hontale_morph2 |-> p_hontale_morph2, p_hontale_out1 |-> p_hontale_out1,
    p_in2159011 |-> p_in2159011, p_in_xmas_party |-> p_in_xmas_party,
    p_inDragonEgg |-> p_inDragonEgg, p_inERShip |-> p_inERShip, p_infoAttack |-> p_infoAttack,
    p_infoMinimap |-> p_infoMinimap, p_infoPickup |-> p_infoPickup,
    p_infoReactor |-> p_infoReactor, p_infoSkill |-> p_infoSkill,
    p_infoWorldmap |-> p_infoWorldmap, p_inNix1 |-> p_inNix1, p_inNix2 |-> p_inNix2,
    p_jail_in |-> p_jail_in, p_jail_out |-> p_jail_out, p_jnr12_in |-> p_jnr12_in,
    p_jnr1_out |-> p_jnr1_out, p_jnr1_pt00 |-> p_jnr1_pt00, p_jnr2_out |-> p_jnr2_out,
    p_jnr3_in0 |-> p_jnr3_in0, p_jnr3_in1 |-> p_jnr3_in1, p_jnr3_out |-> p_jnr3_out,
    p_jnr4_r1 |-> p_jnr4_r1, p_jnr4_r2 |-> p_jnr4_r2, p_jnr4_r3 |-> p_jnr4_r3,
    p_jnr4_r4 |-> p_jnr4_r4, p_jnr5_rp |-> p_jnr5_rp, p_jnr6_out |-> p_jnr6_out,
    p_jnr_201_0 |-> p_jnr_201_0, p_jnr_202 |-> p_jnr_202, p_jnr_exit |-> p_jnr_exit,
    p_kinggate2_open |-> p_kinggate2_open, p_kinggate_open |-> p_kinggate_open, p_kpq0 |-> p_kpq0,
    p_kpq1 |-> p_kpq1, p_kpq2 |-> p_kpq2, p_kpq3 |-> p_kpq3, p_kpq4 |-> p_kpq4,
    p_lionCastle_enter |-> p_lionCastle_enter, p_lpq0 |-> p_lpq0, p_lpq1 |-> p_lpq1,
    p_lpq2 |-> p_lpq2, p_lpq3 |-> p_lpq3, p_lpq4 |-> p_lpq4, p_lpq5 |-> p_lpq5, p_lpq6 |-> p_lpq6,
    p_lpq7 |-> p_lpq7, p_magatia_alc0 |-> p_magatia_alc0, p_magatia_dark0 |-> p_magatia_dark0,
    p_male00 |-> p_male00, p_mapleMarket7_out |-> p_mapleMarket7_out,
    p_mapleTree_out |-> p_mapleTree_out, p_market00 |-> p_market00, p_market01 |-> p_market01,
    p_market02 |-> p_market02, p_market03 |-> p_market03, p_market04 |-> p_market04,
    p_market05 |-> p_market05, p_market06 |-> p_market06, p_market07 |-> p_market07,
    p_market08 |-> p_market08, p_market09 |-> p_market09, p_market10 |-> p_market10,
    p_market11 |-> p_market11, p_market12 |-> p_market12, p_market13 |-> p_market13,
    p_market14 |-> p_market14, p_market15 |-> p_market15, p_market16 |-> p_market16,
    p_market17 |-> p_market17, p_market18 |-> p_market18, p_market19 |-> p_market19,
    p_market20 |-> p_market20, p_market21 |-> p_market21, p_market22 |-> p_market22,
    p_market23 |-> p_market23, p_market24 |-> p_market24, p_market26 |-> p_market26,
    p_market52 |-> p_market52, p_market53 |-> p_market53, p_market54 |-> p_market54,
    p_market55 |-> p_market55, p_market56 |-> p_market56, p_Masteria_B1_1 |-> p_Masteria_B1_1,
    p_Masteria_B2_1 |-> p_Masteria_B2_1, p_Masteria_B3_1 |-> p_Masteria_B3_1,
    p_Masteria_CC1_A |-> p_Masteria_CC1_A, p_Masteria_CC6_A |-> p_Masteria_CC6_A,
    p_Masteria_CM1_A |-> p_Masteria_CM1_A, p_Masteria_CM1_B |-> p_Masteria_CM1_B,
    p_Masteria_CM1_C |-> p_Masteria_CM1_C, p_Masteria_CM1_D |-> p_Masteria_CM1_D,
    p_Masteria_CM2_B |-> p_Masteria_CM2_B, p_Masteria_CM2_C |-> p_Masteria_CM2_C,
    p_Masteria_CM2_D |-> p_Masteria_CM2_D, p_Masteria_CM2_E |-> p_Masteria_CM2_E,
    p_Masteria_U2_1 |-> p_Masteria_U2_1, p_Masteria_U3_1 |-> p_Masteria_U3_1,
    p_Masteria_U5_1 |-> p_Masteria_U5_1, p_Masteria_U5_2 |-> p_Masteria_U5_2,
    p_Masteria_U6_1 |-> p_Masteria_U6_1, p_mayong |-> p_mayong, p_MC2revive |-> p_MC2revive,
    p_mc_out |-> p_mc_out, p_MCRevive1 |-> p_MCRevive1, p_MCRevive2 |-> p_MCRevive2,
    p_MCRevive3 |-> p_MCRevive3, p_MCRevive4 |-> p_MCRevive4, p_MCRevive5 |-> p_MCRevive5,
    p_MCRevive6 |-> p_MCRevive6, p_MD_cakeEnter |-> p_MD_cakeEnter,
    p_MD_drakeroom |-> p_MD_drakeroom, p_MD_error |-> p_MD_error, p_MD_golem |-> p_MD_golem,
    p_MD_high |-> p_MD_high, p_MD_mushroom |-> p_MD_mushroom, p_MD_pig |-> p_MD_pig,
    p_MD_protect |-> p_MD_protect, p_MD_rabbit |-> p_MD_rabbit, p_MD_remember |-> p_MD_remember,
    p_MD_roundTable |-> p_MD_roundTable, p_MD_sand |-> p_MD_sand, p_MD_treasure |-> p_MD_treasure,
    p_met_in |-> p_met_in, p_met_out |-> p_met_out, p_metalgate_open |-> p_metalgate_open,
    p_metro_Chat00 |-> p_metro_Chat00, p_metro_in00 |-> p_metro_in00,
    p_minar_elli |-> p_minar_elli, p_minar_job4 |-> p_minar_job4, p_mirtalk00 |-> p_mirtalk00,
    p_mirtalk01 |-> p_mirtalk01, p_move_elin |-> p_move_elin, p_moveBefore |-> p_moveBefore,
    p_moveNext |-> p_moveNext, p_nets_in |-> p_nets_in, p_nets_out |-> p_nets_out,
    p_NextMap |-> p_NextMap, p_ninja_Boss |-> p_ninja_Boss, p_OBoat1 |-> p_OBoat1,
    p_OBoat2 |-> p_OBoat2, p_obstacle |-> p_obstacle, p_out_ani |-> p_out_ani,
    p_outArchterMap |-> p_outArchterMap, p_outChild |-> p_outChild,
    p_outDarkEreb |-> p_outDarkEreb, p_outMagiclib |-> p_outMagiclib, p_outMaha |-> p_outMaha,
    p_outNix1 |-> p_outNix1, p_outNix2 |-> p_outNix2, p_outPerrion_1 |-> p_outPerrion_1,
    p_outPerrion_2 |-> p_outPerrion_2, p_outRider |-> p_outRider,
    p_outSpecialSchool |-> p_outSpecialSchool, p_outTemple |-> p_outTemple,
    p_outtestWolf |-> p_outtestWolf, p_party3_gardenin |-> p_party3_gardenin,
    p_party3_jail1 |-> p_party3_jail1, p_party3_jail2 |-> p_party3_jail2,
    p_party3_jail3 |-> p_party3_jail3, p_party3_r4pt |-> p_party3_r4pt,
    p_party3_r4pt1 |-> p_party3_r4pt1, p_party3_r6pt |-> p_party3_r6pt,
    p_party3_room1 |-> p_party3_room1, p_party3_room2 |-> p_party3_room2,
    p_party3_room3 |-> p_party3_room3, p_party3_room4 |-> p_party3_room4,
    p_party3_room5 |-> p_party3_room5, p_party3_room6 |-> p_party3_room6,
    p_party3_room8 |-> p_party3_room8, p_party3_roomout |-> p_party3_roomout,
    p_party6_out |-> p_party6_out, p_party6_stage |-> p_party6_stage,
    p_party6_stage501 |-> p_party6_stage501, p_party6_stage502 |-> p_party6_stage502,
    p_party6_stage503 |-> p_party6_stage503, p_party6_stage504 |-> p_party6_stage504,
    p_party6_stage505 |-> p_party6_stage505, p_party6_stage506 |-> p_party6_stage506,
    p_party6_stage507 |-> p_party6_stage507, p_party6_stage508 |-> p_party6_stage508,
    p_party6_stage509 |-> p_party6_stage509, p_party6_stage510 |-> p_party6_stage510,
    p_party6_stage511 |-> p_party6_stage511, p_party6_stage512 |-> p_party6_stage512,
    p_party6_stage513 |-> p_party6_stage513, p_party6_stage514 |-> p_party6_stage514,
    p_party6_stage515 |-> p_party6_stage515, p_Pianus |-> p_Pianus, p_Pinkin |-> p_Pinkin,
    p_Populatus00 |-> p_Populatus00, p_PPinkOut |-> p_PPinkOut, p_q2073 |-> p_q2073,
    p_q3366in |-> p_q3366in, p_q3366out |-> p_q3366out, p_q3367in |-> p_q3367in,
    p_q3367out |-> p_q3367out, p_q3368in |-> p_q3368in, p_q3368out |-> p_q3368out,
    p_raid_rest |-> p_raid_rest, p_raid_stage |-> p_raid_stage, p_raidout |-> p_raidout,
    p_rankDeveloperRoom |-> p_rankDeveloperRoom, p_rankRoom |-> p_rankRoom,
    p_reundodraco |-> p_reundodraco, p_rienCaveEnter |-> p_rienCaveEnter,
    p_rienTutor1 |-> p_rienTutor1, p_rienTutor2 |-> p_rienTutor2, p_rienTutor3 |-> p_rienTutor3,
    p_rienTutor4 |-> p_rienTutor4, p_rienTutor5 |-> p_rienTutor5, p_rienTutor6 |-> p_rienTutor6,
    p_rienTutor7 |-> p_rienTutor7, p_rienTutor8 |-> p_rienTutor8, p_rnj12_in |-> p_rnj12_in,
    p_rnj1_out |-> p_rnj1_out, p_rnj1_pt00 |-> p_rnj1_pt00, p_rnj2_out |-> p_rnj2_out,
    p_rnj3_in0 |-> p_rnj3_in0, p_rnj3_in1 |-> p_rnj3_in1, p_rnj3_out |-> p_rnj3_out,
    p_rnj4_r1 |-> p_rnj4_r1, p_rnj4_r2 |-> p_rnj4_r2, p_rnj4_r3 |-> p_rnj4_r3,
    p_rnj4_r4 |-> p_rnj4_r4, p_rnj5_rp |-> p_rnj5_rp, p_rnj6_out |-> p_rnj6_out,
    p_rnj_201_0 |-> p_rnj_201_0, p_rnj_202 |-> p_rnj_202, p_rnj_exit |-> p_rnj_exit,
    p_s4berserk |-> p_s4berserk, p_s4berserk_move |-> p_s4berserk_move,
    p_s4common1_exit |-> p_s4common1_exit, p_s4firehawk |-> p_s4firehawk,
    p_s4hitman |-> p_s4hitman, p_s4iceeagle |-> p_s4iceeagle, p_s4mind_end |-> p_s4mind_end,
    p_s4nest |-> p_s4nest, p_s4resur_enter |-> p_s4resur_enter, p_s4resur_out |-> p_s4resur_out,
    p_s4resurrection |-> p_s4resurrection, p_s4rush |-> p_s4rush, p_s4ship_out |-> p_s4ship_out,
    p_s4super_out |-> p_s4super_out, p_s4tornado_enter |-> p_s4tornado_enter,
    p_secretDoor |-> p_secretDoor, p_secretgate1_open |-> p_secretgate1_open,
    p_secretgate2_open |-> p_secretgate2_open, p_secretgate3_open |-> p_secretgate3_open,
    p_space_return |-> p_space_return, p_Spacegaga_out0 |-> p_Spacegaga_out0,
    p_Spacegaga_out1 |-> p_Spacegaga_out1, p_Spacegaga_out2 |-> p_Spacegaga_out2,
    p_Spacegaga_out3 |-> p_Spacegaga_out3, p_speargate_open |-> p_speargate_open,
    p_stageBogo |-> p_stageBogo, p_statuegate_open |-> p_statuegate_open,
    p_stonegate_open |-> p_stonegate_open, p_subway_in2 |-> p_subway_in2,
    p_tamepig_out2 |-> p_tamepig_out2, p_TD_Boss_enter |-> p_TD_Boss_enter,
    p_TD_chat_enter |-> p_TD_chat_enter, p_TD_MC_Egate |-> p_TD_MC_Egate,
    p_TD_MC_enterboss1 |-> p_TD_MC_enterboss1, p_TD_MC_first |-> p_TD_MC_first,
    p_TD_MC_jump |-> p_TD_MC_jump, p_templeenter |-> p_templeenter, p_thief_in1 |-> p_thief_in1,
    p_treeboss00 |-> p_treeboss00, p_tristanEnter |-> p_tristanEnter,
    p_tutoChatNPC |-> p_tutoChatNPC, p_tutorHelper |-> p_tutorHelper,
    p_tutorialNPC |-> p_tutorialNPC, p_tutorMinimap |-> p_tutorMinimap,
    p_tutorquest |-> p_tutorquest, p_ulu_pt |-> p_ulu_pt, p_under30gate |-> p_under30gate,
    p_undodraco |-> p_undodraco, p_watergate_open |-> p_watergate_open, p_Zakum03 |-> p_Zakum03,
    p_Zakum05 |-> p_Zakum05]

MCMapTables ==
  [f_spaceGaGa_start |-> f_spaceGaGa_start, u_100000006 |-> u_100000006,
    u_108010101 |-> u_108010101, u_108010201 |-> u_108010201, u_108010301 |-> u_108010301,
    u_108010401 |-> u_108010401, u_108010501 |-> u_108010501, u_108010600 |-> u_108010600,
    u_108010610 |-> u_108010610, u_108010620 |-> u_108010620, u_108010630 |-> u_108010630,
    u_108010640 |-> u_108010640, u_108010701 |-> u_108010701, u_130030000 |-> u_130030000,
    u_130030001 |-> u_130030001, u_200000112 |-> u_200000112, u_200000122 |-> u_200000122,
    u_200000132 |-> u_200000132, u_200000152 |-> u_200000152, u_200090000 |-> u_200090000,
    u_200090010 |-> u_200090010, u_220000111 |-> u_220000111, u_240000111 |-> u_240000111,
    u_260000110 |-> u_260000110, u_540010001 |-> u_540010001, u_540010100 |-> u_540010100,
    u_600010002 |-> u_600010002, u_600010004 |-> u_600010004, u_677000001 |-> u_677000001,
    u_677000003 |-> u_677000003, u_677000005 |-> u_677000005, u_677000007 |-> u_677000007,
    u_677000009 |-> u_677000009, u_677000012 |-> u_677000012, u_910510000 |-> u_910510000,
    u_914000100 |-> u_914000100, u_922000000 |-> u_922000000, u_925040100 |-> u_925040100,
    u_926000000 |-> u_926000000, u_926000010 |-> u_926000010, u_aranDirection |-> u_aranDirection,
    u_babyPigMap |-> u_babyPigMap, u_cannon_tuto_01 |-> u_cannon_tuto_01,
    u_cannon_tuto_direction |-> u_cannon_tuto_direction,
    u_cannon_tuto_direction1 |-> u_cannon_tuto_direction1,
    u_cannon_tuto_direction2 |-> u_cannon_tuto_direction2, u_crash_Dragon |-> u_crash_Dragon,
    u_dojang_Eff |-> u_dojang_Eff, u_dojang_Msg |-> u_dojang_Msg, u_evanleaveD |-> u_evanleaveD,
    u_getDragonEgg |-> u_getDragonEgg, u_go10000 |-> u_go10000, u_go1000000 |-> u_go1000000,
    u_go1010000 |-> u_go1010000, u_go1010100 |-> u_go1010100, u_go1010200 |-> u_go1010200,
    u_go1010300 |-> u_go1010300, u_go1020000 |-> u_go1020000, u_go20000 |-> u_go20000,
    u_go30000 |-> u_go30000, u_go40000 |-> u_go40000, u_go50000 |-> u_go50000,
    u_goAdventure |-> u_goAdventure, u_goArcher |-> u_goArcher, u_goLith |-> u_goLith,
    u_goMagician |-> u_goMagician, u_goPirate |-> u_goPirate, u_goRogue |-> u_goRogue,
    u_goSwordman |-> u_goSwordman, u_iceCave |-> u_iceCave,
    u_Massacre_result |-> u_Massacre_result, u_meetWithDragon |-> u_meetWithDragon,
    u_pepeking_effect |-> u_pepeking_effect, u_PromiseDragon |-> u_PromiseDragon,
    u_Resi_tutor10 |-> u_Resi_tutor10, u_Resi_tutor20 |-> u_Resi_tutor20,
    u_Resi_tutor30 |-> u_Resi_tutor30, u_Resi_tutor40 |-> u_Resi_tutor40,
    u_Resi_tutor50 |-> u_Resi_tutor50, u_Resi_tutor60 |-> u_Resi_tutor60,
    u_Resi_tutor70 |-> u_Resi_tutor70, u_Resi_tutor80 |-> u_Resi_tutor80, u_rien |-> u_rien,
    u_rienArrow |-> u_rienArrow]

\* They return true on a way that neither moves nor answers the player: three of them open an
\* NPC that says nothing.
MCMute ==
  {"p_babyPigOut", "p_cannon_tuto_09", "p_cannon_tuto_10", "p_enterMagiclibrar", "p_evanFarmCT",
    "p_evanGarden1", "p_halloween_Omni1", "p_hontale_Bopen", "p_in2159011", "p_Masteria_CM1_A",
    "p_Masteria_CM1_B", "p_Masteria_CM1_C", "p_Masteria_CM1_D", "p_Masteria_CM2_B",
    "p_Masteria_CM2_C", "p_Masteria_CM2_D", "p_Masteria_CM2_E", "p_Masteria_U2_1",
    "p_Masteria_U3_1", "p_Masteria_U5_1", "p_Masteria_U5_2", "p_Masteria_U6_1", "p_minar_elli",
    "p_s4berserk_move", "p_TD_MC_enterboss1"}

\* They start an instance that moves the player, or warp him, and warp him again.
MCRestless ==
  {"p_1stTowerTop", "p_2ndTowerTop", "p_3rdTowerTop", "p_enterInfo", "p_Spacegaga_out0",
    "p_Spacegaga_out1", "p_Spacegaga_out2", "p_Spacegaga_out3"}

\* They take an item before they know that the player goes through.
MCTolls ==
  {"p_tamepig_out2"}
=============================================================================
