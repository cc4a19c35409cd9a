SPECIFICATION Spec
CONSTANTS
  HebrewYears <- MCYears
  Places <- MCPlaces
  FirstPlaces <- MCFirstPlaces
  Books <- MCBooks
  FirstBook <- MCBook
  Sun <- MCSun
  Start <- MCStart
  EndDay <- MCEndDay
  EnteredMinutes <- MCEnteredMinutes
  BusyDays <- MCBusyDays
  MaxChanges = 1
  MaxTicks = 3
PROPERTY PlansWholeWindow
CHECK_DEADLOCK FALSE
