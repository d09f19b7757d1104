CONSTANTS
  Script <- EagerScript
  OnSpeechReady <- Greeting
  OnSpeechStart <- Greeting
  OnResult <- RepeatResult
  Words <- TwoWords
  NoText = NoText
  MaxSent = 2
SPECIFICATION FairSpec
INVARIANTS TypeOK TalksItsArgument
 
CHECK_DEADLOCK FALSE
