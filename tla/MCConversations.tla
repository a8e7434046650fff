--------------------------- MODULE MCConversations --------------------------
(***************************************************************************)
(* The conversations with all the tables, and the scripts known to break   *)
(* one of the promises.                                                    *)
(***************************************************************************)
EXTENDS ConversationsProofs,
  NpcScripts1, NpcScripts2, NpcScripts3, NpcScripts4, NpcScripts5,
  NpcScripts6, NpcScripts7, NpcScripts8, QuestScripts1, QuestScripts2,
  QuestScripts3

MCNpcTalks ==
  [n2003 |-> n2003, n2100 |-> n2100, n2101 |-> n2101, n10200 |-> n10200, n10201 |-> n10201,
    n10202 |-> n10202, n10203 |-> n10203, n10204 |-> n10204, n11000 |-> n11000, n12101 |-> n12101,
    n22000 |-> n22000, n1002002 |-> n1002002, n1002003 |-> n1002003, n1002004 |-> n1002004,
    n1002005 |-> n1002005, n1002006 |-> n1002006, n1002007 |-> n1002007, n1002100 |-> n1002100,
    n1002104 |-> n1002104, n1012000 |-> n1012000, n1012006 |-> n1012006, n1012007 |-> n1012007,
    n1012008 |-> n1012008, n1012009 |-> n1012009, n1012103 |-> n1012103, n1012104 |-> n1012104,
    n1012105 |-> n1012105, n1012113 |-> n1012113, n1012115 |-> n1012115, n1012116 |-> n1012116,
    n1012117 |-> n1012117, n1012118 |-> n1012118, n1012119 |-> n1012119, n1013001 |-> n1013001,
    n1013002 |-> n1013002, n1013104 |-> n1013104, n1013200 |-> n1013200, n1022001 |-> n1022001,
    n1022004 |-> n1022004, n1022005 |-> n1022005, n1022101 |-> n1022101, n1022104 |-> n1022104,
    n1022105 |-> n1022105, n1032002 |-> n1032002, n1032003 |-> n1032003, n1032004 |-> n1032004,
    n1032005 |-> n1032005, n1032006 |-> n1032006, n1032007 |-> n1032007, n1032008 |-> n1032008,
    n1032009 |-> n1032009, n1032100 |-> n1032100, n1032110 |-> n1032110, n1032111 |-> n1032111,
    n1032113 |-> n1032113, n1032114 |-> n1032114, n1040000 |-> n1040000, n1043000 |-> n1043000,
    n1043001 |-> n1043001, n1052002 |-> n1052002, n1052004 |-> n1052004, n1052005 |-> n1052005,
    n1052006 |-> n1052006, n1052007 |-> n1052007, n1052008 |-> n1052008, n1052009 |-> n1052009,
    n1052010 |-> n1052010, n1052011 |-> n1052011, n1052012 |-> n1052012, n1052015 |-> n1052015,
    n1052016 |-> n1052016, n1052017 |-> n1052017, n1052100 |-> n1052100, n1052101 |-> n1052101,
    n1052107 |-> n1052107, n1052109 |-> n1052109, n1052110 |-> n1052110, n1052111 |-> n1052111,
    n1052112 |-> n1052112, n1052113 |-> n1052113, n1052114 |-> n1052114, n1052125 |-> n1052125,
    n1061000 |-> n1061000, n1061006 |-> n1061006, n1061007 |-> n1061007, n1061008 |-> n1061008,
    n1061010 |-> n1061010, n1061014 |-> n1061014, n1061016 |-> n1061016, n1061018 |-> n1061018,
    n1063000 |-> n1063000, n1063001 |-> n1063001, n1063002 |-> n1063002, n1063016 |-> n1063016,
    n1063017 |-> n1063017, n1072000 |-> n1072000, n1072001 |-> n1072001, n1072002 |-> n1072002,
    n1072003 |-> n1072003, n1072004 |-> n1072004, n1072005 |-> n1072005, n1072006 |-> n1072006,
    n1072007 |-> n1072007, n1072008 |-> n1072008, n1081001 |-> n1081001, n1091003 |-> n1091003,
    n1091004 |-> n1091004, n1092000 |-> n1092000, n1092007 |-> n1092007, n1092008 |-> n1092008,
    n1092010 |-> n1092010, n1092014 |-> n1092014, n1092015 |-> n1092015, n1092016 |-> n1092016,
    n1092018 |-> n1092018, n1092090 |-> n1092090, n1092091 |-> n1092091, n1094000 |-> n1094000,
    n1095000 |-> n1095000, n1095001 |-> n1095001, n1095002 |-> n1095002, n1096001 |-> n1096001,
    n1096003 |-> n1096003, n1096005 |-> n1096005, n1096010 |-> n1096010, n1100000 |-> n1100000,
    n1100003 |-> n1100003, n1100004 |-> n1100004, n1100005 |-> n1100005, n1100006 |-> n1100006,
    n1100007 |-> n1100007, n1100008 |-> n1100008, n1101001 |-> n1101001, n1101008 |-> n1101008,
    n1102001 |-> n1102001, n1102002 |-> n1102002, n1102003 |-> n1102003, n1103000 |-> n1103000,
    n1103005 |-> n1103005, n1104000 |-> n1104000, n1104002 |-> n1104002, n1104100 |-> n1104100,
    n1104101 |-> n1104101, n1104102 |-> n1104102, n1104103 |-> n1104103, n1104104 |-> n1104104,
    n1104200 |-> n1104200, n1104201 |-> n1104201, n1104202 |-> n1104202, n1104203 |-> n1104203,
    n1104204 |-> n1104204, n1104205 |-> n1104205, n1104206 |-> n1104206, n1104207 |-> n1104207,
    n1200000 |-> n1200000, n1200003 |-> n1200003, n1200004 |-> n1200004, n1200005 |-> n1200005,
    n1200006 |-> n1200006, n1202009 |-> n1202009, n1202010 |-> n1202010, n1204001 |-> n1204001,
    n1204005 |-> n1204005, n1209000 |-> n1209000, n1209001 |-> n1209001, n1209002 |-> n1209002,
    n1209003 |-> n1209003, n1209004 |-> n1209004, n1209005 |-> n1209005, n1300001 |-> n1300001,
    n1300006 |-> n1300006, n1300012 |-> n1300012, n1300013 |-> n1300013, n1300014 |-> n1300014,
    n2001000 |-> n2001000, n2001001 |-> n2001001, n2001002 |-> n2001002, n2001003 |-> n2001003,
    n2001004 |-> n2001004, n2002000 |-> n2002000, n2010000 |-> n2010000, n2010001 |-> n2010001,
    n2010002 |-> n2010002, n2010003 |-> n2010003, n2010005 |-> n2010005, n2010006 |-> n2010006,
    n2010007 |-> n2010007, n2010008 |-> n2010008, n2010009 |-> n2010009, n2012000 |-> n2012000,
    n2012001 |-> n2012001, n2012002 |-> n2012002, n2012006 |-> n2012006, n2012007 |-> n2012007,
    n2012008 |-> n2012008, n2012009 |-> n2012009, n2012012 |-> n2012012, n2012013 |-> n2012013,
    n2012014 |-> n2012014, n2012015 |-> n2012015, n2012021 |-> n2012021, n2012022 |-> n2012022,
    n2012023 |-> n2012023, n2012024 |-> n2012024, n2012025 |-> n2012025, n2012027 |-> n2012027,
    n2012028 |-> n2012028, n2012029 |-> n2012029, n2012030 |-> n2012030, n2012031 |-> n2012031,
    n2012032 |-> n2012032, n2012033 |-> n2012033, n2013002 |-> n2013002, n2020002 |-> n2020002,
    n2020004 |-> n2020004, n2020005 |-> n2020005, n2022004 |-> n2022004, n2030008 |-> n2030008,
    n2030010 |-> n2030010, n2030011 |-> n2030011, n2030013 |-> n2030013, n2030014 |-> n2030014,
    n2032001 |-> n2032001, n2032002 |-> n2032002, n2032003 |-> n2032003, n2040000 |-> n2040000,
    n2040002 |-> n2040002, n2040003 |-> n2040003, n2040014 |-> n2040014, n2040019 |-> n2040019,
    n2040020 |-> n2040020, n2040022 |-> n2040022, n2040024 |-> n2040024, n2040025 |-> n2040025,
    n2040026 |-> n2040026, n2040027 |-> n2040027, n2040028 |-> n2040028, n2040031 |-> n2040031,
    n2040032 |-> n2040032, n2040033 |-> n2040033, n2040034 |-> n2040034, n2040035 |-> n2040035,
    n2040036 |-> n2040036, n2040037 |-> n2040037, n2040038 |-> n2040038, n2040039 |-> n2040039,
    n2040040 |-> n2040040, n2040041 |-> n2040041, n2040042 |-> n2040042, n2040044 |-> n2040044,
    n2040045 |-> n2040045, n2040046 |-> n2040046, n2040047 |-> n2040047, n2040048 |-> n2040048,
    n2040050 |-> n2040050, n2041000 |-> n2041000, n2041001 |-> n2041001, n2041007 |-> n2041007,
    n2041008 |-> n2041008, n2041009 |-> n2041009, n2041010 |-> n2041010, n2041013 |-> n2041013,
    n2041017 |-> n2041017, n2041023 |-> n2041023, n2041024 |-> n2041024, n2041025 |-> n2041025,
    n2041026 |-> n2041026, n2041027 |-> n2041027, n2041029 |-> n2041029, n2042003 |-> n2042003,
    n2042004 |-> n2042004, n2042005 |-> n2042005, n2042007 |-> n2042007, n2042008 |-> n2042008,
    n2042009 |-> n2042009, n2043000 |-> n2043000, n2050004 |-> n2050004, n2050014 |-> n2050014,
    n2050015 |-> n2050015, n2050016 |-> n2050016, n2050017 |-> n2050017, n2050018 |-> n2050018,
    n2050019 |-> n2050019, n2060005 |-> n2060005, n2060008 |-> n2060008, n2060009 |-> n2060009,
    n2060100 |-> n2060100, n2070000 |-> n2070000, n2071012 |-> n2071012, n2080005 |-> n2080005,
    n2081000 |-> n2081000, n2081004 |-> n2081004, n2081005 |-> n2081005, n2081009 |-> n2081009,
    n2081010 |-> n2081010, n2082000 |-> n2082000, n2082001 |-> n2082001, n2082002 |-> n2082002,
    n2082003 |-> n2082003, n2082004 |-> n2082004, n2082014 |-> n2082014, n2083000 |-> n2083000,
    n2083001 |-> n2083001, n2083002 |-> n2083002, n2083004 |-> n2083004, n2083005 |-> n2083005,
    n2090000 |-> n2090000, n2090005 |-> n2090005, n2090100 |-> n2090100, n2090101 |-> n2090101,
    n2090102 |-> n2090102, n2091006 |-> n2091006, n2091009 |-> n2091009, n2093003 |-> n2093003,
    n2093004 |-> n2093004, n2094000 |-> n2094000, n2094001 |-> n2094001, n2095000 |-> n2095000,
    n2096000 |-> n2096000, n2100000 |-> n2100000, n2100001 |-> n2100001, n2100002 |-> n2100002,
    n2100003 |-> n2100003, n2100005 |-> n2100005, n2100006 |-> n2100006, n2100007 |-> n2100007,
    n2101000 |-> n2101000, n2101001 |-> n2101001, n2101002 |-> n2101002, n2101003 |-> n2101003,
    n2101004 |-> n2101004, n2101005 |-> n2101005, n2101006 |-> n2101006, n2101007 |-> n2101007,
    n2101008 |-> n2101008, n2101009 |-> n2101009, n2101010 |-> n2101010, n2101011 |-> n2101011,
    n2101013 |-> n2101013, n2101015 |-> n2101015, n2101016 |-> n2101016, n2101018 |-> n2101018,
    n2102000 |-> n2102000, n2102001 |-> n2102001, n2102002 |-> n2102002, n2103001 |-> n2103001,
    n2103002 |-> n2103002, n2103003 |-> n2103003, n2103004 |-> n2103004, n2103005 |-> n2103005,
    n2103006 |-> n2103006, n2103009 |-> n2103009, n2103010 |-> n2103010, n2103011 |-> n2103011,
    n2103012 |-> n2103012, n2103013 |-> n2103013, n2110000 |-> n2110000, n2110002 |-> n2110002,
    n2110005 |-> n2110005, n2111000 |-> n2111000, n2111001 |-> n2111001, n2111003 |-> n2111003,
    n2111004 |-> n2111004, n2111005 |-> n2111005, n2111006 |-> n2111006, n2111007 |-> n2111007,
    n2111008 |-> n2111008, n2111009 |-> n2111009, n2111010 |-> n2111010, n2111013 |-> n2111013,
    n2111014 |-> n2111014, n2111015 |-> n2111015, n2111017 |-> n2111017, n2111018 |-> n2111018,
    n2111019 |-> n2111019, n2111020 |-> n2111020, n2111021 |-> n2111021, n2111022 |-> n2111022,
    n2111023 |-> n2111023, n2111025 |-> n2111025, n2111026 |-> n2111026, n2112001 |-> n2112001,
    n2112003 |-> n2112003, n2112004 |-> n2112004, n2112005 |-> n2112005, n2112006 |-> n2112006,
    n2112011 |-> n2112011, n2112016 |-> n2112016, n2112018 |-> n2112018, n2120003 |-> n2120003,
    n2131000 |-> n2131000, n2131001 |-> n2131001, n2131002 |-> n2131002, n2131003 |-> n2131003,
    n2131004 |-> n2131004, n2131005 |-> n2131005, n2131006 |-> n2131006, n2131007 |-> n2131007,
    n2132000 |-> n2132000, n2132001 |-> n2132001, n2132002 |-> n2132002, n2132003 |-> n2132003,
    n2133000 |-> n2133000, n2133001 |-> n2133001, n2133002 |-> n2133002, n2133004 |-> n2133004,
    n2141000 |-> n2141000, n2141001 |-> n2141001, n2141002 |-> n2141002, n2160000 |-> n2160000,
    n2161001 |-> n2161001, n2161003 |-> n2161003, n2161007 |-> n2161007, n9000000 |-> n9000000,
    n9000002 |-> n9000002, n9000004 |-> n9000004, n9000007 |-> n9000007, n9000008 |-> n9000008,
    n9000009 |-> n9000009, n9000010 |-> n9000010, n9000012 |-> n9000012, n9000017 |-> n9000017,
    n9000021 |-> n9000021, n9000030 |-> n9000030, n9000036 |-> n9000036, n9000038 |-> n9000038,
    n9000040 |-> n9000040, n9000041 |-> n9000041, n9000049 |-> n9000049, n9000055 |-> n9000055,
    n9010001 |-> n9010001, n9010002 |-> n9010002, n9010003 |-> n9010003, n9010004 |-> n9010004,
    n9010021 |-> n9010021, n9010022 |-> n9010022, n9020000 |-> n9020000, n9020001 |-> n9020001,
    n9020002 |-> n9020002, n9030000 |-> n9030000, n9030100 |-> n9030100, n9040001 |-> n9040001,
    n9040002 |-> n9040002, n9040003 |-> n9040003, n9040004 |-> n9040004, n9040005 |-> n9040005,
    n9040007 |-> n9040007, n9040008 |-> n9040008, n9040010 |-> n9040010, n9040011 |-> n9040011,
    n9040012 |-> n9040012, n9060000 |-> n9060000, n9101001 |-> n9101001, n9102100 |-> n9102100,
    n9102101 |-> n9102101, n9103000 |-> n9103000, n9103001 |-> n9103001, n9103002 |-> n9103002,
    n9103003 |-> n9103003, n9105004 |-> n9105004, n9105005 |-> n9105005, n9110002 |-> n9110002,
    n9110100 |-> n9110100, n9110101 |-> n9110101, n9110103 |-> n9110103, n9110104 |-> n9110104,
    n9110105 |-> n9110105, n9110106 |-> n9110106, n9110107 |-> n9110107, n9110108 |-> n9110108,
    n9110110 |-> n9110110, n9110111 |-> n9110111, n9110112 |-> n9110112, n9110113 |-> n9110113,
    n9110114 |-> n9110114, n9120003 |-> n9120003, n9120009 |-> n9120009, n9120010 |-> n9120010,
    n9120015 |-> n9120015, n9120023 |-> n9120023, n9120100 |-> n9120100, n9120101 |-> n9120101,
    n9120200 |-> n9120200, n9120201 |-> n9120201, n9120202 |-> n9120202, n9120203 |-> n9120203,
    n9200000 |-> n9200000, n9201000 |-> n9201000, n9201004 |-> n9201004, n9201010 |-> n9201010,
    n9201013 |-> n9201013, n9201014 |-> n9201014, n9201015 |-> n9201015, n9201016 |-> n9201016,
    n9201018 |-> n9201018, n9201019 |-> n9201019, n9201021 |-> n9201021, n9201022 |-> n9201022,
    n9201033 |-> n9201033, n9201039 |-> n9201039, n9201043 |-> n9201043, n9201044 |-> n9201044,
    n9201045 |-> n9201045, n9201046 |-> n9201046, n9201047 |-> n9201047, n9201048 |-> n9201048,
    n9201049 |-> n9201049, n9201050 |-> n9201050, n9201051 |-> n9201051, n9201052 |-> n9201052,
    n9201054 |-> n9201054, n9201056 |-> n9201056, n9201057 |-> n9201057, n9201063 |-> n9201063,
    n9201064 |-> n9201064, n9201065 |-> n9201065, n9201068 |-> n9201068, n9201069 |-> n9201069,
    n9201070 |-> n9201070, n9201071 |-> n9201071, n9201072 |-> n9201072, n9201073 |-> n9201073,
    n9201079 |-> n9201079, n9201081 |-> n9201081, n9201082 |-> n9201082, n9201083 |-> n9201083,
    n9201084 |-> n9201084, n9201088 |-> n9201088, n9201093 |-> n9201093, n9201094 |-> n9201094,
    n9201095 |-> n9201095, n9201098 |-> n9201098, n9201099 |-> n9201099, n9201100 |-> n9201100,
    n9201101 |-> n9201101, n9201102 |-> n9201102, n9201103 |-> n9201103, n9201104 |-> n9201104,
    n9201105 |-> n9201105, n9201106 |-> n9201106, n9201107 |-> n9201107, n9201108 |-> n9201108,
    n9201109 |-> n9201109, n9201110 |-> n9201110, n9201111 |-> n9201111, n9201112 |-> n9201112,
    n9201113 |-> n9201113, n9201114 |-> n9201114, n9201123 |-> n9201123, n9201124 |-> n9201124,
    n9201125 |-> n9201125, n9201126 |-> n9201126, n9201127 |-> n9201127, n9201128 |-> n9201128,
    n9201129 |-> n9201129, n9201130 |-> n9201130, n9201131 |-> n9201131, n9201132 |-> n9201132,
    n9201133 |-> n9201133, n9201134 |-> n9201134, n9201142 |-> n9201142, n9201143 |-> n9201143,
    n9209000 |-> n9209000, n9209001 |-> n9209001, n9209100 |-> n9209100, n9220004 |-> n9220004,
    n9220018 |-> n9220018, n9220019 |-> n9220019, n9220020 |-> n9220020, n9250045 |-> n9250045,
    n9270017 |-> n9270017, n9270018 |-> n9270018, n9270023 |-> n9270023, n9270024 |-> n9270024,
    n9270025 |-> n9270025, n9270031 |-> n9270031, n9270033 |-> n9270033, n9270038 |-> n9270038,
    n9270041 |-> n9270041, n9270042 |-> n9270042, n9270045 |-> n9270045, n9270047 |-> n9270047,
    n9270054 |-> n9270054, n9300010 |-> n9300010, n9310058 |-> n9310058, n9330046 |-> n9330046,
    n9900000 |-> n9900000, n9900001 |-> n9900001, n9999998 |-> n9999998, n9999999 |-> n9999999,
    n9999999_aramia |-> n9999999_aramia, n_MagatiaPassword |-> n_MagatiaPassword,
    n_MaybeItsGrendel_end |-> n_MaybeItsGrendel_end, n_PupeteerPassword |-> n_PupeteerPassword,
    n_ScavengerHunt |-> n_ScavengerHunt, n_ThiefPassword |-> n_ThiefPassword,
    n_TrophyExchange |-> n_TrophyExchange, n_changeName |-> n_changeName,
    n_commands |-> n_commands, n_dailies |-> n_dailies, n_features |-> n_features,
    n_gachaponRemote |-> n_gachaponRemote, n_nameReserve |-> n_nameReserve,
    n_rank_user |-> n_rank_user, n_suggestions |-> n_suggestions]

MCQuestTalks ==
  [q1021_end |-> q1021_end, q1021_start |-> q1021_start, q2001_end |-> q2001_end,
    q2124_end |-> q2124_end, q2126_end |-> q2126_end, q2127_end |-> q2127_end,
    q2148_end |-> q2148_end, q2148_start |-> q2148_start, q2149_end |-> q2149_end,
    q2149_start |-> q2149_start, q2150_end |-> q2150_end, q2150_start |-> q2150_start,
    q2151_end |-> q2151_end, q2151_start |-> q2151_start, q2152_end |-> q2152_end,
    q2152_start |-> q2152_start, q2197_end |-> q2197_end, q2197_start |-> q2197_start,
    q2214_end |-> q2214_end, q2215_end |-> q2215_end, q2216_start |-> q2216_start,
    q2217_start |-> q2217_start, q2218_start |-> q2218_start, q2219_start |-> q2219_start,
    q2228_start |-> q2228_start, q2230_end |-> q2230_end, q2230_start |-> q2230_start,
    q2236_end |-> q2236_end, q2236_start |-> q2236_start, q2238_start |-> q2238_start,
    q2245_start |-> q2245_start, q2251_end |-> q2251_end, q2257_end |-> q2257_end,
    q2258_end |-> q2258_end, q2258_start |-> q2258_start, q2259_end |-> q2259_end,
    q2259_start |-> q2259_start, q2260_end |-> q2260_end, q2260_start |-> q2260_start,
    q2291_end |-> q2291_end, q2293_end |-> q2293_end, q2293_start |-> q2293_start,
    q2300_end |-> q2300_end, q2300_start |-> q2300_start, q2301_end |-> q2301_end,
    q2301_start |-> q2301_start, q2302_end |-> q2302_end, q2302_start |-> q2302_start,
    q2303_end |-> q2303_end, q2303_start |-> q2303_start, q2304_end |-> q2304_end,
    q2304_start |-> q2304_start, q2305_end |-> q2305_end, q2305_start |-> q2305_start,
    q2306_end |-> q2306_end, q2306_start |-> q2306_start, q2307_end |-> q2307_end,
    q2307_start |-> q2307_start, q2308_end |-> q2308_end, q2308_start |-> q2308_start,
    q2309_end |-> q2309_end, q2309_start |-> q2309_start, q2310_end |-> q2310_end,
    q2310_start |-> q2310_start, q2312_end |-> q2312_end, q2312_start |-> q2312_start,
    q2313_end |-> q2313_end, q2313_start |-> q2313_start, q2314_end |-> q2314_end,
    q2314_start |-> q2314_start, q2315_end |-> q2315_end, q2315_start |-> q2315_start,
    q2316_end |-> q2316_end, q2316_start |-> q2316_start, q2317_end |-> q2317_end,
    q2317_start |-> q2317_start, q2318_end |-> q2318_end, q2318_start |-> q2318_start,
    q2319_end |-> q2319_end, q2319_start |-> q2319_start, q2320_end |-> q2320_end,
    q2320_start |-> q2320_start, q2321_end |-> q2321_end, q2321_start |-> q2321_start,
    q2322_end |-> q2322_end, q2322_start |-> q2322_start, q2325_end |-> q2325_end,
    q2327_start |-> q2327_start, q2332_end |-> q2332_end, q2332_start |-> q2332_start,
    q2333_end |-> q2333_end, q2333_start |-> q2333_start, q2334_end |-> q2334_end,
    q2334_start |-> q2334_start, q2335_end |-> q2335_end, q2335_start |-> q2335_start,
    q2338_start |-> q2338_start, q2342_end |-> q2342_end, q2342_start |-> q2342_start,
    q2560_start |-> q2560_start, q2561_start |-> q2561_start, q2568_end |-> q2568_end,
    q2568_start |-> q2568_start, q2570_end |-> q2570_end, q2573_start |-> q2573_start,
    q3108_start |-> q3108_start, q3114_end |-> q3114_end, q3138_start |-> q3138_start,
    q3239_end |-> q3239_end, q3250_end |-> q3250_end, q3301_start |-> q3301_start,
    q3303_start |-> q3303_start, q3311_end |-> q3311_end, q3314_end |-> q3314_end,
    q3320_start |-> q3320_start, q3321_start |-> q3321_start, q3345_end |-> q3345_end,
    q3353_start |-> q3353_start, q3354_start |-> q3354_start, q3360_end |-> q3360_end,
    q3382_end |-> q3382_end, q3414_end |-> q3414_end,
    q3414_free10rate_end |-> q3414_free10rate_end, q3452_end |-> q3452_end,
    q3454_end |-> q3454_end, q3507_end |-> q3507_end, q3514_end |-> q3514_end,
    q3514_start |-> q3514_start, q3523_start |-> q3523_start, q3524_start |-> q3524_start,
    q3525_start |-> q3525_start, q3526_start |-> q3526_start, q3527_start |-> q3527_start,
    q3529_start |-> q3529_start, q3539_start |-> q3539_start, q3714_start |-> q3714_start,
    q3833_end |-> q3833_end, q3926_end |-> q3926_end, q3927_end |-> q3927_end,
    q3933_start |-> q3933_start, q3941_end |-> q3941_end, q3941_start |-> q3941_start,
    q3953_end |-> q3953_end, q4647_end |-> q4647_end, q4647_start |-> q4647_start,
    q4659_start |-> q4659_start, q6030_end |-> q6030_end, q6031_end |-> q6031_end,
    q6032_end |-> q6032_end, q6033_end |-> q6033_end, q6036_end |-> q6036_end,
    q6410_end |-> q6410_end, q7103_start |-> q7103_start, q8219_end |-> q8219_end,
    q8219_start |-> q8219_start, q8221_start |-> q8221_start, q8223_start |-> q8223_start,
    q8224_start |-> q8224_start, q8225_start |-> q8225_start, q8226_start |-> q8226_start,
    q8227_end |-> q8227_end, q8227_start |-> q8227_start, q8228_end |-> q8228_end,
    q8228_start |-> q8228_start, q8229_end |-> q8229_end, q8229_start |-> q8229_start,
    q8230_end |-> q8230_end, q8230_start |-> q8230_start, q8231_start |-> q8231_start,
    q8232_start |-> q8232_start, q8233_start |-> q8233_start, q8234_start |-> q8234_start,
    q8235_start |-> q8235_start, q8236_start |-> q8236_start, q8237_start |-> q8237_start,
    q8238_start |-> q8238_start, q8255_end |-> q8255_end, q8255_start |-> q8255_start,
    q10940_start |-> q10940_start, q20000_start |-> q20000_start, q20001_start |-> q20001_start,
    q20002_start |-> q20002_start, q20008_start |-> q20008_start, q20010_end |-> q20010_end,
    q20010_start |-> q20010_start, q20011_end |-> q20011_end, q20011_start |-> q20011_start,
    q20012_end |-> q20012_end, q20012_start |-> q20012_start, q20013_end |-> q20013_end,
    q20013_start |-> q20013_start, q20016_end |-> q20016_end, q20016_start |-> q20016_start,
    q20017_end |-> q20017_end, q20017_start |-> q20017_start, q20100_start |-> q20100_start,
    q20101_end |-> q20101_end, q20102_end |-> q20102_end, q20103_end |-> q20103_end,
    q20104_end |-> q20104_end, q20105_end |-> q20105_end, q20200_start |-> q20200_start,
    q20201_end |-> q20201_end, q20202_end |-> q20202_end, q20203_end |-> q20203_end,
    q20204_end |-> q20204_end, q20205_end |-> q20205_end, q20311_start |-> q20311_start,
    q20312_start |-> q20312_start, q20313_start |-> q20313_start, q20314_start |-> q20314_start,
    q20315_start |-> q20315_start, q20400_start |-> q20400_start, q20401_start |-> q20401_start,
    q20405_start |-> q20405_start, q20406_start |-> q20406_start, q20408_start |-> q20408_start,
    q20520_start |-> q20520_start, q20522_end |-> q20522_end, q20522_start |-> q20522_start,
    q20526_end |-> q20526_end, q20526_start |-> q20526_start, q20527_start |-> q20527_start,
    q20600_end |-> q20600_end, q20600_start |-> q20600_start, q20610_end |-> q20610_end,
    q20610_start |-> q20610_start, q20700_end |-> q20700_end, q20700_start |-> q20700_start,
    q20710_start |-> q20710_start, q20720_end |-> q20720_end, q20720_start |-> q20720_start,
    q21000_end |-> q21000_end, q21000_start |-> q21000_start, q21001_end |-> q21001_end,
    q21001_start |-> q21001_start, q21010_end |-> q21010_end, q21010_start |-> q21010_start,
    q21011_end |-> q21011_end, q21011_start |-> q21011_start, q21012_end |-> q21012_end,
    q21012_start |-> q21012_start, q21013_end |-> q21013_end, q21013_start |-> q21013_start,
    q21015_start |-> q21015_start, q21016_start |-> q21016_start, q21017_start |-> q21017_start,
    q21018_start |-> q21018_start, q21100_start |-> q21100_start, q21101_end |-> q21101_end,
    q21101_start |-> q21101_start, q21200_end |-> q21200_end, q21200_start |-> q21200_start,
    q21201_end |-> q21201_end, q21202_end |-> q21202_end, q21202_start |-> q21202_start,
    q21300_start |-> q21300_start, q21301_end |-> q21301_end, q21302_end |-> q21302_end,
    q21303_start |-> q21303_start, q21400_start |-> q21400_start, q21401_end |-> q21401_end,
    q21401_start |-> q21401_start, q21600_start |-> q21600_start, q21604_start |-> q21604_start,
    q21613_start |-> q21613_start, q21618_end |-> q21618_end, q21618_start |-> q21618_start,
    q21700_end |-> q21700_end, q21700_start |-> q21700_start, q21703_end |-> q21703_end,
    q21703_start |-> q21703_start, q21704_end |-> q21704_end, q21704_start |-> q21704_start,
    q21712_end |-> q21712_end, q21712_start |-> q21712_start, q21716_end |-> q21716_end,
    q21716_start |-> q21716_start, q21719_end |-> q21719_end, q21719_start |-> q21719_start,
    q21720_end |-> q21720_end, q21720_start |-> q21720_start, q21728_end |-> q21728_end,
    q21729_start |-> q21729_start, q21733_end |-> q21733_end, q21733_start |-> q21733_start,
    q21734_end |-> q21734_end, q21734_start |-> q21734_start, q21735_end |-> q21735_end,
    q21735_start |-> q21735_start, q21736_start |-> q21736_start, q21738_start |-> q21738_start,
    q21739_end |-> q21739_end, q21740_end |-> q21740_end, q21740_start |-> q21740_start,
    q21741_start |-> q21741_start, q21742_end |-> q21742_end, q21742_start |-> q21742_start,
    q21746_end |-> q21746_end, q21746_start |-> q21746_start, q21747_end |-> q21747_end,
    q21747_start |-> q21747_start, q21748_end |-> q21748_end, q21749_start |-> q21749_start,
    q21750_end |-> q21750_end, q21753_start |-> q21753_start, q21754_start |-> q21754_start,
    q21757_end |-> q21757_end, q21766_end |-> q21766_end, q21766_start |-> q21766_start,
    q21767_start |-> q21767_start, q22000_end |-> q22000_end, q22000_start |-> q22000_start,
    q22001_start |-> q22001_start, q22002_end |-> q22002_end, q22002_start |-> q22002_start,
    q22003_start |-> q22003_start, q22004_end |-> q22004_end, q22004_start |-> q22004_start,
    q22007_end |-> q22007_end, q22008_end |-> q22008_end, q22008_start |-> q22008_start,
    q22500_start |-> q22500_start, q22501_start |-> q22501_start, q22502_start |-> q22502_start,
    q22503_start |-> q22503_start, q22504_start |-> q22504_start, q22507_start |-> q22507_start,
    q23011_end |-> q23011_end, q28004_start |-> q28004_start, q29900_end |-> q29900_end,
    q29900_start |-> q29900_start, q29901_end |-> q29901_end, q29901_start |-> q29901_start,
    q29902_end |-> q29902_end, q29902_start |-> q29902_start, q29903_end |-> q29903_end,
    q29903_start |-> q29903_start, q29924_end |-> q29924_end, q29924_start |-> q29924_start,
    qmedalQuest_end |-> qmedalQuest_end, qmedalQuest_start |-> qmedalQuest_start,
    qunidentifiedQuest_start |-> qunidentifiedQuest_start]

\* Bound: a quest that parts with a page, and one that asks before it takes.
MCQuestsOver == {"q2148_start", "q20012_end"}
MCWanderings == -2 .. 12

(***************************************************************************)
(* The points of every conversation, all that its calls lead to from its   *)
(* opening on.  An NPC without a page is also asked about those the quests *)
(* part with.  ReachAssumption says of these points what the proofs need.  *)
(***************************************************************************)
Led(who, calls) ==
  UNION {{ComesTo(k, o) : o \in {x \in ComesOf(who, k) : ~Over(x)}} : k \in calls}
Strays(who, P, kinds) ==
  IF who \in QuestNames THEN {}
  ELSE {Showing(p, kind) : p \in {x \in P : x.page = "" /\ x.at \in Wanderings}, kind \in kinds}

RECURSIVE Spread(_, _, _, _)
Spread(who, kinds, known, new) ==
  IF new = {} THEN known
  ELSE LET next == Led(who, UNION {CallsAt(p) : p \in new}) \cup Strays(who, new, kinds)
       IN  Spread(who, kinds, known \cup new, next \ (known \cup new))
Points(who, kinds) == Spread(who, kinds, {}, Led(who, {Opening}))

Partings ==
  UNION {UNION {{o.page : o \in {x \in ComesOf(q, k) : x.closes}} :
                  k \in {Opening} \cup UNION {CallsAt(p) : p \in Points(q, {})}} :
           q \in QuestsOver}
MCReach == [who \in Names |-> Points(who, Partings)]

\* An item is found in one call and taken in a later one, in an NPC's action().
MCUnsecured ==
  {"n1012007", "n1012105", "n1052007", "n1061016", "n1072002", "n1092010", "n2012014",
    "n2012015", "n2032002", "n2040022", "n2040024", "n2040025", "n2040026", "n2040027",
    "n2040033", "n2060009", "n2071012", "n2131001", "n2131003", "n2131005", "n2131006",
    "n2131007", "n9000004", "n9020001", "n9201004", "n9201043", "n9270023", "n9270025",
    "n9105004", "n9300010"}

\* Some answer leads to a status of which the script says nothing.
MCStranding ==
  {"n2003", "n12101", "n1002104", "n1012008", "n1012113", "n1032008", "n1061006", "n1061014",
    "n1091003", "n1101008", "n1300013", "n2001001", "n2001002", "n2001003", "n2001004",
    "n2010007", "n2013002", "n2030013", "n2040003", "n2042005",
    "n2042007", "n2083004", "n2090005", "n2091006", "n2101013", "n2111020", "n2111021",
    "n2111022", "n2111023", "n2141001", "n9000055", "n9102100", "n9110113", "n9120201",
    "n9201018", "n9201019", "n9201033", "n9201050", "n9201051", "n9201052", "n9201102",
    "n9201107", "n9201108", "n9201109", "n9201111", "n9201112", "n9201113", "n9209100",
    "n9270018", "n9270045", "n9270047", "n9999998", "n_TrophyExchange", "n_changeName",
    "n_dailies", "n_gachaponRemote", "n_nameReserve", "q2230_end", "q2293_end", "q2322_start",
    "q2332_end", "q2334_end", "q2335_end", "q2342_end", "q2568_end", "q3301_start",
    "q3303_start", "q4659_start", "q8255_end", "q8255_start", "q20008_start", "q20016_end",
    "q20017_end", "q20720_end", "q21101_end", "q21101_start", "q21401_end", "q22504_start"}

\* Something is given, or taken, before what may fail.
MCHalfDone ==
  {"n1052007", "n1072000", "n1072001", "n1072002", "n1072003", "n2032002", "n2040020", "n2040022",
    "n2041009", "n2131001", "n2131003", "n2131005", "n2131006", "n2131007", "n9020001",
    "n9201004", "n9201043", "q2001_end", "q2236_end", "q2236_start", "q2291_end", "q2312_end",
    "q2317_end", "q2318_end", "q2319_end", "q2320_end", "q2570_end", "q3239_end", "q3414_end",
    "q3454_end", "q20013_end", "q20201_end", "q20202_end", "q20203_end", "q20204_end",
    "q20205_end", "q21013_end", "q21742_end", "q21746_end", "q21757_end", "q22000_end",
    "q22002_end", "q22007_end", "q23011_end"}

\* A reward is given on a page one can step back to.
MCRepeating ==
  {"n1002104", "q1021_start", "q20001_start", "q20016_start", "q20101_end", "q20102_end",
    "q20103_end", "q20104_end", "q20105_end", "q20201_end", "q20202_end", "q20203_end",
    "q20204_end", "q20205_end", "q20700_start", "q21101_start", "q21720_end", "q22003_start",
    "q22004_end", "q22008_end"}
=============================================================================
