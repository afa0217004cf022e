SPECIFICATION Spec
CONSTANTS
  OptionSets <- MCMmdbOptions
  Databases <- MCDatabases
  CsvOptionSets <- MCCsvOptions
  Files <- MCFiles
  Number <- MCNumber
  Asked <- MCAsked
INVARIANTS
  DetailsRight
  LookupAgrees
  SharesRecords
  FailsOnKept
  OptionsHonoured
