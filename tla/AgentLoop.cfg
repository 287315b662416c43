SPECIFICATION Spec
CONSTANTS
  NoText = NoText
  Instruction = Instruction
  Tools = {t1, t2}
  MaxQuestions = 2
  MaxFailures = 1
  MaxMessages = 13
PROPERTY EveryQuestionIsAnswered
