SPECIFICATION TrainingSpec
CONSTANTS
    MaxFile = 5
    Months = {1, 2}
    Warm = 2
    Horizon = 1
    TrainMonths = 1
    MinSamples = 1
    MinTest = 1
INVARIANT LabelOfItsCandle
CHECK_DEADLOCK FALSE
