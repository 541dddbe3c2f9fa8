----------------------------- MODULE WalkForward ----------------------------
(***************************************************************************)
(* The walk-forward training of MlRsi's models (ml/train.py), and the      *)
(* loading of one.  A candle is its place in the file, from 1, and has a   *)
(* month.  A label is the pair of the candles whose closes it compares, a  *)
(* feature the candle it describes, a model the samples it was fitted to:  *)
(* prices, the fit and the metrics do not matter to what is asked here.    *)
(***************************************************************************)
EXTENDS Ordering, SequencesExt

CONSTANTS
    MaxFile,     \* bound: candles in the file
    Months,      \* of the year, in order
    Warm,        \* candles before the first feature: rsi_period + 23
    Horizon,     \* horizon
    TrainMonths, \* train_months
    MinSamples, MinTest  \* MIN_TRAIN_SAMPLES, and the 50 of a test month

ASSUME TrainingAssumption ==
    /\ Months \subseteq Nat \ {0} /\ MaxFile \in Nat
    /\ Horizon \in Nat \ {0} /\ Warm \in Nat /\ Horizon <= Warm
    /\ TrainMonths \in Nat \ {0} /\ MinSamples \in Nat /\ MinTest \in Nat

VARIABLES
    training,  \* what train_walk_forward is doing
    months,    \* of the candles of the file
    samples,   \* aligned_feats, aligned_labels and aligned_timestamps
    splits,    \* month_indices, month_labels
    test,      \* test_idx
    models,    \* the model files: for each month, what it was fitted to
    loaded     \* the months asked of load_model and given by it

trainingVars == <<training, months, samples, splits, test, models, loaded>>

NoSplits == [starts |-> <<1>>, labels |-> <<>>]

TrainingInit ==
    /\ training = "reading" /\ months = <<>> /\ samples = <<>>
    /\ splits = NoSplits /\ test = 1 /\ models = <<>> /\ loaded = <<>>

\* A candle of the file.  Nothing sorts it: a CSV file is in the order in which
\* its rows were appended.
ReadCandle(m) ==
    /\ training = "reading" /\ Len(months) < MaxFile
    /\ months' = Append(months, m)
    /\ UNCHANGED <<training, samples, splits, test, models, loaded>>

-----------------------------------------------------------------------------
(* Samples *)

Labels == [i \in 1..Len(months) - Horizon |-> [from |-> i, to |-> i + Horizon]]

\* _build_features gives none before the RSI and its 24 values are there.
Features == [i \in 1..Len(months) - Warm |-> Warm + i]

\* "feature[i] corresponds to label[i]": both are cut, and the labels from
\* `offset`, which leaves out the horizon.
Aligned ==
    LET offset == Len(months) - Len(Features) - Horizon
    IN [i \in DOMAIN Features |->
           [feature |-> Features[i], label |-> Labels[offset + i],
            month |-> months[offset + Horizon + i]]]

\* _monthly_split: where each run of one month starts, and the end.
MonthlySplit(s) ==
    LET starts == InOrder({i \in DOMAIN s : i = 1 \/ s[i].month # s[i - 1].month})
    IN [starts |-> Append(starts, Len(s) + 1),
        labels |-> [k \in DOMAIN starts |-> s[starts[k]].month]]

Prepare ==
    /\ training = "reading"
    /\ Len(months) > Warm /\ Len(Features) >= MinSamples
    /\ samples' = Aligned
    /\ splits' = MonthlySplit(samples')
    /\ test' = TrainMonths + 1
    /\ training' = "training"
    /\ UNCHANGED <<months, models, loaded>>

-----------------------------------------------------------------------------
(* Training *)

Run(i, j) == SubSeq(samples, splits.starts[i], splits.starts[j] - 1)

WithModel(month, fitted) ==
    [m \in DOMAIN models \cup {month} |-> IF m = month THEN fitted ELSE models[m]]

\* Seeded fault: the month the model is named after is trained on as well.
TrainNextInSample ==
    /\ training = "training" /\ test <= Len(splits.labels)
    /\ test' = test + 1
    /\ LET train == Run(test - TrainMonths, test + 1)
       IN models' = IF Len(train) < MinSamples \/ Len(Run(test, test + 1)) < MinTest
                    THEN models ELSE WithModel(splits.labels[test], ToSet(train))
    /\ UNCHANGED <<training, months, samples, splits, loaded>>

\* One turn of the loop: the model of a month is fitted to the runs before it
\* and written over an older file of that name.
TrainNext ==
    /\ training = "training" /\ test <= Len(splits.labels)
    /\ test' = test + 1
    /\ LET train == Run(test - TrainMonths, test)
       IN models' = IF Len(train) < MinSamples \/ Len(Run(test, test + 1)) < MinTest
                    THEN models ELSE WithModel(splits.labels[test], ToSet(train))
    /\ UNCHANGED <<training, months, samples, splits, loaded>>

TrainDone ==
    /\ training = "training" /\ test > Len(splits.labels)
    /\ training' = "trained"
    /\ UNCHANGED <<months, samples, splits, test, models, loaded>>

\* _load_nearest_model: the last file, in order, up to the month, or the first.
Nearest(m) ==
    LET earlier == {k \in DOMAIN models : k <= m}
    IN IF earlier = {} THEN Min(DOMAIN models) ELSE Max(earlier)

LoadModel(m) ==
    /\ training = "trained" /\ DOMAIN models # {}
    /\ loaded' = [asked |-> m, given |-> IF m \in DOMAIN models THEN m ELSE Nearest(m)]
    /\ UNCHANGED <<training, months, samples, splits, test, models>>

TrainingNext ==
    \/ \E m \in Months : ReadCandle(m) \/ LoadModel(m)
    \/ Prepare \/ TrainNext \/ TrainDone

TrainingSpec == TrainingInit /\ [][TrainingNext]_trainingVars

-----------------------------------------------------------------------------
(* What must hold *)

Chronological(s) == \A i, j \in DOMAIN s : i <= j => s[i] <= s[j]

\* Features and both ends of the labels of the samples are of months before m.
SeenBefore(m, sampled) ==
    \A s \in sampled : /\ months[s.feature] < m
                       /\ months[s.label.from] < m /\ months[s.label.to] < m

\* Of a file in order, a model has seen nothing of the month it is named after
\* or of a later one; nor has the one MlRsi is given of the month it asks for,
\* unless there is none but of later months.
TrainedOnThePast ==
    Chronological(months) =>
        /\ \A m \in DOMAIN models : SeenBefore(m, models[m])
        /\ loaded # <<>> /\ (\E m \in DOMAIN models : m <= loaded.asked)
               => SeenBefore(loaded.asked, models[loaded.given])

\* "feature[i] corresponds to label[i]" (ml/train.py:144): what is predicted
\* from a candle is what comes after it.
LabelOfItsCandle ==
    \A i \in DOMAIN samples : samples[i].label.from = samples[i].feature
=============================================================================
