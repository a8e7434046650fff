SPECIFICATION Spec
CONSTANTS
  NpcTalks <- MCNpcTalks
  QuestTalks <- MCQuestTalks
  QuestsOver <- MCQuestsOver
  Wanderings <- MCWanderings
  Stranding <- MCStranding
  Unsecured <- MCUnsecured
  HalfDone <- MCHalfDone
  Repeating <- MCRepeating
  Reach <- MCReach
INVARIANTS
  TypeOK
  NeverStranded
  AllOrNothing
  AnswerReachesAsker
PROPERTY GivenOnce
