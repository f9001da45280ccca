SPECIFICATION WizardSpec
CONSTANTS
    Tasks = {t1, t2}
    Links = {l1}
    Offered = {"domme", "submissive"}
    Unset = Unset
    MaxDrafts = 1
    MaxEdits = 3
    MaxMessages = 1
    MaxForms = 1
    MaxSecrets = 2
INVARIANTS ScreensAreHonest PublishedIsWhatWasShown
PROPERTY WritesOnlyItsSection
SYMMETRY ModelSymmetry
CHECK_DEADLOCK FALSE
