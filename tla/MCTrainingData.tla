--------------------------- MODULE MCTrainingData ------------------------------
EXTENDS TrainingData

MCSources == {"gk2a", "kpx", "west", "asos", "station", "kasi", "cloud", "village", "nasa", "shards"}

\* The last hour of the second day is of the next month.
MCMonthsOf == <<{1}, {1, 2}>>

\* The service has no product for one time.
MCUnserved == {<<1, "00", 1>>}
=============================================================================
