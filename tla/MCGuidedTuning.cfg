CONSTANTS
  Programs <- MCPrograms
  Devices <- MCDevices
  Answers <- MCAnswers
  CandidateBudget = 2
  Times = {20, 21, 22}
  Samples = 3
  InputSizes = {6}
  GEMVConfigs <- MCGEMVConfigs
  MinimumSpeedup = 105
SPECIFICATION Spec
VIEW WithoutPast
INVARIANTS
  AdviceOnlyNarrows
  FastestAdmittedIsChosen
  ChosenNormsRanRight
  FusionReplacesWhatItBeat
