CONSTANTS
  Script <- TestScript
  OnSpeechReady <- Nothing
  OnSpeechStart <- Nothing
  OnResult <- TestResult
  Words <- TwoWords
  NoText = NoText
  MaxSent = 1
SPECIFICATION Spec
INVARIANTS OneThreadInV8
CHECK_DEADLOCK FALSE
