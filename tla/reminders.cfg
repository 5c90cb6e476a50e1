\* Two reminders, two workers (one at a time without the bus), one disturbance.
SPECIFICATION FairSpec
CONSTANTS
  NReminders = 2
  Workers = {w1, w2}
  MaxDisturbances = 1
INVARIANTS
  DuplicatesAreBounded
  TablesAgree
  EndsAreEarned
  NothingIsStranded
PROPERTIES
  RemindersEnd
