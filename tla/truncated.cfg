\* A history that is cut short, and counts as covering the window.
SPECIFICATION Spec
CONSTANTS
  Child = {"me", "sibling"}
  Wanted = "me"
  NoOne = "none"
  Modes = {"password", "session"}
  MaxLeft = 2
  Homework <- MCHomework
  Configured <- MCConfigured
  Default <- MCHomework
  Assigned <- MCAssigned
  FirstDue <- MCFirstDue
  WindowDays = 1
  GraceDays = 1
  MaxDay = 3
  MaxEdits = 2
PROPERTY
  CloseMeansGone
