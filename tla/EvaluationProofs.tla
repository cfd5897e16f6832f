-------------------------- MODULE EvaluationProofs -------------------------
(***************************************************************************)
(* What is proved about the evaluation of the logs, for all plans, logs    *)
(* and numbers of evaluations.                                             *)
(***************************************************************************)
EXTENDS Evaluation, RationalsProofs

-----------------------------------------------------------------------------
(* The scripts may be started again.                                       *)

\* The figures that the logs give.
Drawn == Figures(Readable(ExtractAll))

DrawnFromLogs == figures # NotYet => ~IsRunning /\ figures = Drawn

\* The figures depend on nothing but the plan and the directories.
LEMMA DrawnKept ==
    ASSUME UNCHANGED <<plan, inputdir>>
    PROVE  Drawn' = Drawn
<1>1. ExtractAll' = ExtractAll
  BY DEF ExtractAll, extract_client_logs
<1>2. \A files : Readable(files)' = Readable(files)
  BY DEF Readable
<1> QED
  BY <1>1, <1>2 DEF Drawn

\* Figures are drawn after the last run only, and from its logs.
LEMMA DrawnFromLogsInvariant ==
    Spec => []DrawnFromLogs
<1>1. Init => DrawnFromLogs
  BY DEF Init, DrawnFromLogs
<1>2. DrawnFromLogs /\ [Next]_vars => DrawnFromLogs'
  <2>1. SUFFICES ASSUME DrawnFromLogs, [Next]_vars PROVE DrawnFromLogs'
    OBVIOUS
  <2>2. CASE IsRunning
    <3>1. figures = NotYet
      BY <2>1, <2>2 DEF DrawnFromLogs
    <3>2. figures' = figures
      BY <2>1, <2>2 DEF Next, vars, LogRequest, LogSecond, NextRun, Evaluate
    <3>3. NotYet' = NotYet
      BY DEF NotYet
    <3> QED  BY <3>1, <3>2, <3>3 DEF DrawnFromLogs
  <2>3. CASE ~IsRunning
    <3>1. UNCHANGED <<plan, inputdir, current>>
      BY <2>1, <2>3 DEF Next, vars, LogRequest, LogSecond, NextRun, Evaluate
    <3>2. ~IsRunning' /\ Drawn' = Drawn
      BY <2>3, <3>1, DrawnKept DEF IsRunning
    <3>3. CASE Evaluate
      <4>1. figures' = Drawn
        BY <3>3 DEF Evaluate, Drawn
      <4> QED  BY <3>2, <4>1 DEF DrawnFromLogs
    <3>4. CASE UNCHANGED vars
      BY <2>1, <3>2, <3>4 DEF DrawnFromLogs, vars
    <3> QED
      BY <2>1, <2>3, <3>3, <3>4 DEF Next, LogRequest, LogSecond, NextRun
  <2> QED  BY <2>2, <2>3
<1> QED
  BY <1>1, <1>2, PTL DEF Spec

\* However often the scripts are started, the figures stay the same (the "w" with
\* which gather_memtier_statistics.py opens the extracted files).
THEOREM FiguresStayTheSame ==
    Spec => RerunsAgree
<1>1. DrawnFromLogs /\ [Next]_vars => [figures = NotYet]_figures
  <2>1. SUFFICES ASSUME DrawnFromLogs, [Next]_vars, figures # NotYet PROVE figures' = figures
    OBVIOUS
  <2>2. CASE Evaluate
    BY <2>1, <2>2 DEF DrawnFromLogs, Evaluate, Drawn
  <2>3. CASE ~Evaluate
    BY <2>1, <2>3 DEF Next, vars, LogRequest, LogSecond, NextRun
  <2> QED  BY <2>2, <2>3
<1> QED
  BY <1>1, DrawnFromLogsInvariant, PTL DEF Spec, RerunsAgree

-----------------------------------------------------------------------------
(* The averages of a second.  The rows of a data frame are those of the    *)
(* lines L of a log: m[l] is the row of line l, with the columns D.        *)

InSecond(L, m, second) == {l \in L : Second(m[l]) = second}

SecondsIn(L, m) == {Second(m[l]) : l \in L}

\* What a second's number of requests stands for.
ThroughputOf(rows) == Whole(Cardinality(rows) * log_interval)

AverageIs(average, rows, m, column) ==
    \A f : (\A l \in rows : f[l] = m[l][column]) /\ IntegersOn(f, rows) =>
            average = Ratio(SumFunctionOnSet(f, rows), Cardinality(rows))

WindowIs(window, rows, m, D) ==
    /\ DOMAIN window = (D \ Labels) \union {"throughput_mw"}
    /\ window["throughput_mw"] = ThroughputOf(rows)
    /\ \A column \in D \ Labels : AverageIs(window[column], rows, m, column)

WindowsAre(windows, L, m, D) ==
    /\ DOMAIN windows = SecondsIn(L, m)
    /\ \A second \in SecondsIn(L, m) : WindowIs(windows[second], InSecond(L, m, second), m, D)

\* A function that is tabulated is the function.
LEMMA TabulatedIs ==
    ASSUME NEW f
    PROVE  Tabulated(f) = f
BY DEF Tabulated

\* aggregate_over_windows takes the averages over the lines of a second: no
\* two lines have the same row.
LEMMA WindowsOfLines ==
    ASSUME NEW L, IsFiniteSet(L), NEW m, \A k, l \in L : m[k] = m[l] => k = l,
           NEW D, \A l \in L : DOMAIN m[l] = D, "throughput_mw" \notin D
    PROVE  WindowsAre(aggregate_over_windows({m[l] : l \in L}), L, m, D)
<1>1. PICK M : M = {m[l] : l \in L}
  OBVIOUS
<1>2. PICK columns : columns = D \ Labels
  OBVIOUS
<1>3. L # {} => Columns(M) = columns
  <2>1. SUFFICES ASSUME NEW k \in L PROVE Columns(M) = columns
    OBVIOUS
  <2>2. \A r \in M : DOMAIN r = D
    BY <1>1
  <2>3. m[k] \in M
    BY <1>1
  <2>4. PICK all : all = {DOMAIN r : r \in M}
    OBVIOUS
  <2>5. all = {D}
    BY <2>2, <2>3, <2>4
  <2>6. UNION all = D
    BY <2>5
  <2> QED  BY <1>2, <2>4, <2>6 DEF Columns
<1>4. PICK windows : windows = aggregate_over_windows(M)
  OBVIOUS
<1>5. {Second(r) : r \in M} = SecondsIn(L, m)
  BY <1>1 DEF SecondsIn
<1>6. windows = [second \in SecondsIn(L, m) |->
                    [column \in Columns(M) |-> Ratio(SumFunction([r \in {r \in M : Second(r) = second} |-> r[column]]),
                                                     Cardinality({r \in M : Second(r) = second}))]
                        ++ [throughput_mw |-> Whole(Cardinality({r \in M : Second(r) = second}) * log_interval)]]
  BY <1>4, <1>5, TabulatedIs DEF aggregate_over_windows
<1>7. DOMAIN windows = SecondsIn(L, m)
  BY <1>6
<1>8. ASSUME NEW second \in SecondsIn(L, m)
      PROVE  WindowIs(windows[second], InSecond(L, m, second), m, D)
  <2>1. PICK rows : rows = InSecond(L, m, second)
    OBVIOUS
  <2>2. PICK window : window = {r \in M : Second(r) = second}
    OBVIOUS
  <2>3. rows \in SUBSET L /\ IsFiniteSet(rows)
    <3>1. rows \in SUBSET L
      BY <2>1 DEF InSecond
    <3> QED  BY <3>1, FS_Subset
  <2>4. Enumerates(m, rows, window)
    <3>1. \A l \in rows : m[l] \in window
      BY <1>1, <2>1, <2>2 DEF InSecond
    <3>2. \A r \in window : \E l \in rows : m[l] = r
      BY <1>1, <2>1, <2>2 DEF InSecond
    <3> QED  BY <2>3, <3>1, <3>2 DEF Enumerates
  <2>5. Cardinality(window) = Cardinality(rows)
    BY <2>3, <2>4, SameSize
  <2>6. Columns(M) = columns
    BY <1>3 DEF SecondsIn
  <2>7. windows[second] = [column \in columns |-> Ratio(SumFunction([r \in window |-> r[column]]), Cardinality(rows))]
                            ++ [throughput_mw |-> ThroughputOf(rows)]
    BY <1>6, <2>2, <2>5, <2>6 DEF ThroughputOf
  <2>8. PICK averages : averages = [column \in columns |-> Ratio(SumFunction([r \in window |-> r[column]]), Cardinality(rows))]
    OBVIOUS
  <2>9. /\ DOMAIN windows[second] = columns \union {"throughput_mw"}
        /\ windows[second]["throughput_mw"] = ThroughputOf(rows)
        /\ \A column \in columns : windows[second][column] = averages[column]
    <3>1. PICK single : single = [throughput_mw |-> ThroughputOf(rows)]
      OBVIOUS
    <3>2. DOMAIN single = {"throughput_mw"} /\ single["throughput_mw"] = ThroughputOf(rows)
      BY <3>1
    <3>3. DOMAIN averages = columns /\ "throughput_mw" \notin columns
      BY <1>2, <2>8
    <3>4. windows[second] = averages ++ single
      BY <2>7, <2>8, <3>1
    <3> QED  BY <3>2, <3>3, <3>4 DEF ++
  <2>10. ASSUME NEW column \in columns PROVE AverageIs(averages[column], rows, m, column)
    <3>1. SUFFICES ASSUME NEW f, \A l \in rows : f[l] = m[l][column], IntegersOn(f, rows)
                   PROVE  averages[column] = Ratio(SumFunctionOnSet(f, rows), Cardinality(rows))
      BY DEF AverageIs
    <3>2. PICK h : h = [r \in window |-> r[column]]
      OBVIOUS
    <3>3. SumFunction(h) = SumFunctionOnSet(h, window)
      BY <3>2 DEF SumFunction
    <3>4. \A l \in rows : h[m[l]] = f[l]
      BY <2>4, <3>1, <3>2 DEF Enumerates
    <3>5. SumFunctionOnSet(h, window) = SumFunctionOnSet(f, rows)
      <4>1. /\ \A l \in rows : m[l] \in window
            /\ \A r \in window : \E l \in rows : m[l] = r
            /\ \A k, l \in rows : m[k] = m[l] => k = l
        BY <2>4 DEF Enumerates
      <4>2. IsFiniteSet(rows) /\ IntegersOn(f, rows)
        BY <2>3, <3>1
      <4> QED  BY <3>4, <4>1, <4>2, SumOfImages
    <3> QED  BY <2>8, <3>2, <3>3, <3>5
  <2> QED  BY <1>2, <2>1, <2>9, <2>10 DEF WindowIs
<1> QED
  BY <1>1, <1>4, <1>7, <1>8 DEF WindowsAre

\* The rows of several logs, line l of log i at <<i, l>>.
Joint(I, L, m) == [p \in PairsOf(I, L) |-> m[p[1]][p[2]]]

\* A second of the joint log has the lines that each log has in this second.
LEMMA JointSecond ==
    ASSUME NEW I, NEW L, NEW m, NEW second, NEW N, NEW J, J = {i \in I : second \in SecondsIn(L[i], m[i])},
           \A i \in J : N[i] = InSecond(L[i], m[i], second)
    PROVE  InSecond(PairsOf(I, L), Joint(I, L, m), second) = PairsOf(J, N)
<1>1. PICK all, joint : all = PairsOf(I, L) /\ joint = Joint(I, L, m)
  OBVIOUS
<1>2. \A i \in I : \A l \in L[i] : <<i, l>> \in all /\ joint[<<i, l>>] = m[i][l]
  BY <1>1 DEF PairsOf, Joint
<1>3. ASSUME NEW p \in InSecond(all, joint, second) PROVE p \in PairsOf(J, N)
  <2>1. PICK i \in I : \E l \in L[i] : p = <<i, l>>
    BY <1>1 DEF InSecond, PairsOf
  <2>2. PICK l \in L[i] : p = <<i, l>>
    BY <2>1
  <2>3. Second(m[i][l]) = second
    BY <1>2, <2>2 DEF InSecond
  <2>4. i \in J /\ l \in N[i]
    BY <2>3 DEF SecondsIn, InSecond
  <2> QED  BY <2>2, <2>4 DEF PairsOf
<1>4. ASSUME NEW p \in PairsOf(J, N) PROVE p \in InSecond(all, joint, second)
  <2>1. PICK i \in J : \E l \in N[i] : p = <<i, l>>
    BY DEF PairsOf
  <2>2. PICK l \in N[i] : p = <<i, l>>
    BY <2>1
  <2>3. i \in I /\ l \in L[i] /\ Second(m[i][l]) = second
    BY <2>2 DEF InSecond
  <2> QED  BY <1>2, <2>2, <2>3 DEF InSecond
<1> QED
  BY <1>1, <1>3, <1>4

\* The joint log has the seconds of all logs.
LEMMA JointSeconds ==
    ASSUME NEW I, NEW L, NEW m
    PROVE  SecondsIn(PairsOf(I, L), Joint(I, L, m)) = UNION {SecondsIn(L[i], m[i]) : i \in I}
<1>1. PICK all, joint : all = PairsOf(I, L) /\ joint = Joint(I, L, m)
  OBVIOUS
<1>2. \A i \in I : \A l \in L[i] : <<i, l>> \in all /\ joint[<<i, l>>] = m[i][l]
  BY <1>1 DEF PairsOf, Joint
<1>3. ASSUME NEW second \in SecondsIn(all, joint) PROVE second \in UNION {SecondsIn(L[i], m[i]) : i \in I}
  <2>1. PICK p \in all : second = Second(joint[p])
    BY DEF SecondsIn
  <2>2. PICK i \in I : \E l \in L[i] : p = <<i, l>>
    BY <1>1 DEF PairsOf
  <2>3. PICK l \in L[i] : p = <<i, l>>
    BY <2>2
  <2>4. second \in SecondsIn(L[i], m[i])
    BY <1>2, <2>1, <2>3 DEF SecondsIn
  <2> QED  BY <2>4
<1>4. ASSUME NEW i \in I, NEW second \in SecondsIn(L[i], m[i]) PROVE second \in SecondsIn(all, joint)
  <2>1. PICK l \in L[i] : second = Second(m[i][l])
    BY DEF SecondsIn
  <2>2. <<i, l>> \in all /\ joint[<<i, l>>] = m[i][l]
    BY <1>2
  <2> QED  BY <2>1, <2>2 DEF SecondsIn
<1> QED
  BY <1>1, <1>3, <1>4

\* aggregate_over_middlewares takes the averages over all lines of a second,
\* of whichever middleware: the weights are as the numbers of lines.
LEMMA MiddlewaresTogether ==
    ASSUME NEW I, IsFiniteSet(I), NEW L, \A i \in I : IsFiniteSet(L[i]), NEW m,
           NEW D, "throughput_mw" \notin D,
           NEW frames, DOMAIN frames = I, \A i \in I : WindowsAre(frames[i], L[i], m[i], D)
    PROVE  WindowsAre(aggregate_over_middlewares(frames), PairsOf(I, L), Joint(I, L, m), D)
<1>1. PICK all, joint : all = PairsOf(I, L) /\ joint = Joint(I, L, m)
  OBVIOUS
<1>2. PICK result : result = aggregate_over_middlewares(frames)
  OBVIOUS
<1>3. \A i \in I : DOMAIN frames[i] = SecondsIn(L[i], m[i])
  BY DEF WindowsAre
<1>4. Seconds(frames) = SecondsIn(all, joint)
  <2>1. Seconds(frames) = UNION {SecondsIn(L[i], m[i]) : i \in I}
    BY <1>3 DEF Seconds
  <2> QED  BY <1>1, <2>1, JointSeconds
<1>5. DOMAIN result = SecondsIn(all, joint)
  BY <1>2, <1>4, TabulatedIs DEF aggregate_over_middlewares
<1>6. ASSUME NEW second \in SecondsIn(all, joint)
      PROVE  WindowIs(result[second], InSecond(all, joint, second), joint, D)
  <2>1. PICK J : J = {i \in I : second \in SecondsIn(L[i], m[i])}
    OBVIOUS
  <2>2. With(frames, second) = J
    BY <1>3, <2>1 DEF With
  <2>3. J # {} /\ J \in SUBSET I /\ IsFiniteSet(J)
    <3>1. J # {}
      BY <1>1, <2>1, JointSeconds
    <3> QED  BY <2>1, <3>1, FS_Subset
  <2>4. PICK N : N = [i \in J |-> InSecond(L[i], m[i], second)]
    OBVIOUS
  <2>5. PICK rows : rows = PairsOf(J, N)
    OBVIOUS
  <2>6. InSecond(all, joint, second) = rows
    BY <1>1, <2>1, <2>4, <2>5, JointSecond
  <2>7. \A i \in J : IsFiniteSet(N[i]) /\ Cardinality(N[i]) \in Nat \ {0}
    <3>1. SUFFICES ASSUME NEW i \in J PROVE IsFiniteSet(N[i]) /\ Cardinality(N[i]) \in Nat \ {0}
      OBVIOUS
    <3>2. N[i] \in SUBSET L[i] /\ IsFiniteSet(L[i])
      BY <2>3, <2>4 DEF InSecond
    <3>3. IsFiniteSet(N[i])
      BY <3>2, FS_Subset
    <3>4. N[i] # {}
      BY <2>1, <2>4 DEF InSecond, SecondsIn
    <3> QED  BY <3>3, <3>4, FS_EmptySet, FS_CardinalityType
  <2>8. PICK n : n = [i \in J |-> Cardinality(N[i])]
    OBVIOUS
  <2>9. SumFunctionOnSet(n, J) = Cardinality(rows)
    BY <2>3, <2>5, <2>7, <2>8, NumberOfPairs
  <2>10. PICK throughput : throughput = [i \in J |-> frames[i][second].throughput_mw]
    OBVIOUS
  <2>11. \A i \in J : WindowIs(frames[i][second], N[i], m[i], D)
    BY <2>1, <2>4 DEF WindowsAre
  <2>12. DOMAIN throughput = J /\ \A i \in J : throughput[i] = Whole(n[i] * log_interval)
    BY <2>8, <2>10, <2>11 DEF WindowIs, ThroughputOf
  <2>13. PICK c \in Nat \ {0} : c = log_interval
    BY RequestLogsAssumption
  <2>14. \A i \in J : n[i] \in Nat \ {0}
    BY <2>7, <2>8
  <2>15. Total(throughput) = ThroughputOf(rows)
    <3>1. PICK nc : nc = [i \in J |-> n[i] * c]
      OBVIOUS
    <3>2. \A i \in J : throughput[i] = Whole(nc[i])
      BY <2>12, <2>13, <3>1
    <3>3. IntegersOn(nc, J) /\ IntegersOn(n, J)
      BY <2>14, <3>1 DEF IntegersOn
    <3>4. Total(throughput) = Whole(SumFunctionOnSet(nc, J))
      BY <2>3, <2>12, <3>2, <3>3, TotalOfWhole
    <3>5. SumFunctionOnSet(nc, J) = SumFunctionOnSet(n, J) * c
      <4>1. \A i \in J : nc[i] = n[i] * c
        BY <3>1
      <4>2. c \in Int
        OBVIOUS
      <4> QED  BY <2>3, <3>3, <4>1, <4>2, SumTimes
    <3> QED  BY <2>9, <2>13, <3>4, <3>5 DEF ThroughputOf
  <2>16. PICK columns : columns = (D \ Labels) \union {"throughput_mw"}
    OBVIOUS
  <2>17. ColumnsOf(frames) = columns
    <3>1. \A i \in I : \A s \in DOMAIN frames[i] : DOMAIN frames[i][s] = columns
      BY <1>3, <2>16 DEF WindowsAre, WindowIs
    <3>2. PICK i \in I : second \in DOMAIN frames[i]
      BY <1>3, <2>1, <2>3
    <3> QED  BY <3>1, <3>2 DEF ColumnsOf
  <2>18. result[second] = [column \in columns |->
                IF column = "throughput_mw" THEN Total(throughput)
                ELSE WeightedMean([i \in J |-> frames[i][second][column]], throughput)]
    <3>1. PICK given : given = [t \in Seconds(frames) |->
                Tabulated([column \in ColumnsOf(frames) |->
                    IF column = "throughput_mw" THEN Total([i \in With(frames, t) |-> frames[i][t].throughput_mw])
                    ELSE WeightedMean([i \in With(frames, t) |-> frames[i][t][column]],
                                      [i \in With(frames, t) |-> frames[i][t].throughput_mw])])]
      OBVIOUS
    <3>2. result = Tabulated(given)
      BY <1>2, <3>1 DEF aggregate_over_middlewares
    <3>3. result[second] = given[second]
      BY <3>2, TabulatedIs
    <3>4. given[second] = Tabulated([column \in columns |->
                IF column = "throughput_mw" THEN Total(throughput)
                ELSE WeightedMean([i \in J |-> frames[i][second][column]], throughput)])
      BY <1>4, <2>2, <2>10, <2>17, <3>1
    <3> QED  BY <3>3, <3>4, TabulatedIs
  <2>19. ASSUME NEW column \in D \ Labels
         PROVE  AverageIs(result[second][column], rows, joint, column)
    <3>1. SUFFICES ASSUME NEW f, \A p \in rows : f[p] = joint[p][column], IntegersOn(f, rows)
                   PROVE  result[second][column] = Ratio(SumFunctionOnSet(f, rows), Cardinality(rows))
      BY DEF AverageIs
    <3>2. PICK g : g = [i \in J |-> [l \in N[i] |-> f[<<i, l>>]]]
      OBVIOUS
    <3>3. PICK s : s = [i \in J |-> SumFunctionOnSet(g[i], N[i])]
      OBVIOUS
    <3>4. SumFunctionOnSet(s, J) = SumFunctionOnSet(f, rows)
      <4>1. \A i \in J : \A l \in N[i] : g[i][l] = f[<<i, l>>]
        BY <3>2
      <4>2. \A i \in J : s[i] = SumFunctionOnSet(g[i], N[i])
        BY <3>3
      <4>3. IntegersOn(f, PairsOf(J, N)) /\ \A i \in J : IsFiniteSet(N[i])
        BY <2>5, <2>7, <3>1
      <4> QED  BY <2>3, <2>5, <4>1, <4>2, <4>3, SumOfPairs
    <3>5. \A i \in J : \A l \in N[i] : <<i, l>> \in rows
      BY <2>5 DEF PairsOf
    <3>6. \A i \in J : IntegersOn(g[i], N[i])
      BY <3>1, <3>2, <3>5 DEF IntegersOn
    <3>7. \A i \in J : s[i] \in Int
      <4>1. SUFFICES ASSUME NEW i \in J PROVE SumFunctionOnSet(g[i], N[i]) \in Int
        BY <3>3
      <4> QED  BY <2>7, <3>6, SumType
    <3>8. \A i \in J : frames[i][second][column] = Ratio(s[i], n[i])
      <4>1. SUFFICES ASSUME NEW i \in J PROVE frames[i][second][column] = Ratio(s[i], n[i])
        OBVIOUS
      <4>2. AverageIs(frames[i][second][column], N[i], m[i], column)
        BY <2>11 DEF WindowIs
      <4>3. \A l \in N[i] : g[i][l] = m[i][l][column]
        <5>1. SUFFICES ASSUME NEW l \in N[i] PROVE g[i][l] = m[i][l][column]
          OBVIOUS
        <5>2. <<i, l>> \in rows /\ <<i, l>> \in all
          BY <1>1, <2>3, <2>4, <3>5 DEF InSecond, PairsOf
        <5>3. joint[<<i, l>>] = m[i][l]
          BY <1>1, <5>2 DEF Joint
        <5> QED  BY <3>1, <3>2, <5>2, <5>3
      <4> QED  BY <2>8, <3>3, <3>6, <4>2, <4>3 DEF AverageIs
    <3>9. PICK means : means = [i \in J |-> frames[i][second][column]]
      OBVIOUS
    <3>10. WeightedMean(means, throughput) = Ratio(SumFunctionOnSet(s, J), SumFunctionOnSet(n, J))
      <4>1. DOMAIN means = J /\ \A i \in J : means[i] = Ratio(s[i], n[i])
        BY <3>8, <3>9
      <4>2. \A i \in J : throughput[i] = Whole(n[i] * c)
        BY <2>12, <2>13
      <4>3. IntegersOn(s, J) /\ DOMAIN throughput = J
        BY <2>12, <3>7 DEF IntegersOn
      <4> QED  BY <2>3, <2>14, <4>1, <4>2, <4>3, WeightedMeanPools
    <3>11. result[second][column] = WeightedMean(means, throughput)
      BY <2>16, <2>18, <3>9
    <3> QED  BY <2>9, <3>4, <3>10, <3>11
  <2>20. DOMAIN result[second] = columns /\ result[second]["throughput_mw"] = ThroughputOf(rows)
    BY <2>15, <2>16, <2>18
  <2> QED  BY <2>6, <2>16, <2>19, <2>20 DEF WindowIs
<1> QED
  BY <1>1, <1>2, <1>5, <1>6 DEF WindowsAre

-----------------------------------------------------------------------------
(* The logs of every run.                                                  *)

RequestRows(mw) == {Row(StartOf(mw) + clock, t) : clock \in Nat, t \in Timings}

\* One file, which begins with a GET when the middleware's clock does.
RequestLogGood(logs, mw) ==
    \E rows \in Seq(RequestRows(mw)) :
        /\ logs = <<[thread |-> rows]>>
        /\ 1 \in DOMAIN rows
        /\ rows[1] = Row(StartOf(mw), FirstTiming)

ClientRow(k, m) == [timestep |-> k] ++ m
ClientRows == {ClientRow(k, m) : k \in Nat, m \in Measurements}

\* A row for every second, from 0 on.
ClientLogGood(log, n) ==
    /\ log \in Seq(ClientRows)
    /\ \A i \in DOMAIN log : log[i].timestep = i - 1
    /\ Warmup + 1 <= Len(log) /\ Len(log) <= Warmup + 1 + n

RunGood(run, n) ==
    /\ DOMAIN run = {"middlewares", "clients", "pings", "totals"}
    /\ DOMAIN run.middlewares = Range(Middlewares)
    /\ \A mw \in Range(Middlewares) : RequestLogGood(run.middlewares[mw], mw)
    /\ DOMAIN run.clients = Range(ClientLogs)
    /\ \A log \in Range(ClientLogs) : ClientLogGood(run.clients[log], n)

LogsGood ==
    /\ lines \in Nat /\ lines <= MaxLines
    /\ \A r \in Range(plan) : r[1] \in DOMAIN inputdir /\ r[2] \in DOMAIN inputdir[r[1]]
    /\ \A name \in DOMAIN inputdir : \A rep \in DOMAIN inputdir[name] : RunGood(inputdir[name][rep], lines)

\* The timing that an unread row is taken for is that of a GET.
LEMMA FirstTimingIsGet ==
    FirstTiming \in Timings /\ FirstTiming.requestType = "GET"
BY EvaluationAssumption DEF FirstTiming

\* A middleware starts at a natural number of seconds.
LEMMA StartOfType ==
    ASSUME NEW mw
    PROVE  StartOf(mw) \in Nat
BY DEF StartOf

\* The logs that a run starts with are good.
LEMMA BlankRunGood ==
    RunGood(BlankRun, 0)
<1>1. /\ DOMAIN BlankRun = {"middlewares", "clients", "pings", "totals"}
      /\ DOMAIN BlankRun.middlewares = Range(Middlewares)
      /\ DOMAIN BlankRun.clients = Range(ClientLogs)
  BY DEF BlankRun
<1>2. ASSUME NEW mw \in Range(Middlewares) PROVE RequestLogGood(BlankRun.middlewares[mw], mw)
  <2>1. PICK rows : rows = [i \in 1 .. (Cooldown + 1) |->
                                Row(StartOf(mw) + (i - 1) * TicksPerSecond, FirstTiming)]
    OBVIOUS
  <2>2. BlankRun.middlewares[mw] = <<[thread |-> rows]>>
    BY <2>1 DEF BlankRun
  <2>3. \A i \in 1 .. (Cooldown + 1) : (i - 1) * TicksPerSecond \in Nat
    <3>1. SUFFICES ASSUME NEW i \in 1 .. (Cooldown + 1) PROVE (i - 1) * TicksPerSecond \in Nat
      OBVIOUS
    <3>2. PICK k \in Nat, t \in Nat : k = i - 1 /\ t = TicksPerSecond
      BY ChartAssumption, RequestLogsAssumption
    <3>3. k * t \in Nat
      OBVIOUS
    <3> QED  BY <3>2, <3>3
  <2>4. \A i \in 1 .. (Cooldown + 1) : rows[i] \in RequestRows(mw)
    BY <2>1, <2>3, FirstTimingIsGet DEF RequestRows
  <2>5. Cooldown + 1 \in Nat /\ 1 \in 1 .. (Cooldown + 1)
    BY ChartAssumption
  <2>6. rows \in Seq(RequestRows(mw)) /\ DOMAIN rows = 1 .. (Cooldown + 1)
    BY <2>1, <2>4, <2>5
  <2>7. rows[1] = Row(StartOf(mw), FirstTiming)
    <3>1. (1 - 1) * TicksPerSecond = 0 /\ StartOf(mw) + 0 = StartOf(mw)
      BY RequestLogsAssumption, StartOfType
    <3> QED  BY <2>1, <2>5, <3>1
  <2> QED  BY <2>2, <2>5, <2>6, <2>7 DEF RequestLogGood
<1>3. ASSUME NEW log \in Range(ClientLogs) PROVE ClientLogGood(BlankRun.clients[log], 0)
  <2>1. PICK rows : rows = [i \in 1 .. (Warmup + 1) |-> [timestep |-> i - 1] ++ FirstMeasurement]
    OBVIOUS
  <2>2. BlankRun.clients[log] = rows
    BY <2>1 DEF BlankRun
  <2>3. FirstMeasurement \in Measurements
    BY EvaluationAssumption DEF FirstMeasurement
  <2>4. \A i \in 1 .. (Warmup + 1) : rows[i] \in ClientRows /\ rows[i].timestep = i - 1
    <3>1. SUFFICES ASSUME NEW i \in 1 .. (Warmup + 1) PROVE rows[i] \in ClientRows /\ rows[i].timestep = i - 1
      OBVIOUS
    <3>2. i - 1 \in Nat
      BY ChartAssumption
    <3>3. rows[i] = [timestep |-> i - 1] ++ FirstMeasurement
      BY <2>1
    <3>4. rows[i].timestep = i - 1
      BY <3>3 DEF ++
    <3> QED  BY <2>3, <3>2, <3>3, <3>4 DEF ClientRows, ClientRow
  <2>5. Warmup + 1 \in Nat
    BY ChartAssumption
  <2>6. rows \in Seq(ClientRows) /\ Len(rows) = Warmup + 1 /\ DOMAIN rows = 1 .. (Warmup + 1)
    <3>1. PICK n \in Nat : n = Warmup + 1
      BY <2>5
    <3>5. PICK S : S = ClientRows
      OBVIOUS
    <3>2. DOMAIN rows = 1 .. n /\ \A i \in 1 .. n : rows[i] \in S
      BY <2>1, <2>4, <3>1, <3>5
    <3>3. rows = [i \in 1 .. n |-> rows[i]]
      BY <2>1, <3>1
    <3>4. rows \in Seq(S) /\ Len(rows) = n
      BY <3>2, <3>3
    <3> QED  BY <3>1, <3>2, <3>4, <3>5
  <2> QED  BY <2>2, <2>4, <2>5, <2>6 DEF ClientLogGood
<1> QED
  BY <1>1, <1>2, <1>3 DEF RunGood

\* A request more is logged.
LEMMA RequestKeepsGood ==
    ASSUME NEW run, NEW n \in Nat, RunGood(run, n), NEW mw \in Range(Middlewares),
           NEW timing \in Timings, NEW clock \in Nat
    PROVE  RunGood([run EXCEPT !.middlewares[mw][1].thread = Append(@, Row(StartOf(mw) + clock, timing))], n + 1)
<1>1. PICK row : row = Row(StartOf(mw) + clock, timing)
  OBVIOUS
<1>2. PICK new : new = [run EXCEPT !.middlewares[mw][1].thread = Append(@, row)]
  OBVIOUS
<1>3. PICK rows \in Seq(RequestRows(mw)) : /\ run.middlewares[mw] = <<[thread |-> rows]>>
                                           /\ 1 \in DOMAIN rows
                                           /\ rows[1] = Row(StartOf(mw), FirstTiming)
  BY DEF RunGood, RequestLogGood
<1>4. new = [run EXCEPT !.middlewares = [run.middlewares EXCEPT ![mw] = <<[thread |-> Append(rows, row)]>>]]
  <2>1. [<<[thread |-> rows]>> EXCEPT ![1].thread = Append(@, row)] = <<[thread |-> Append(rows, row)]>>
    <3>1. PICK more : more = Append(rows, row)
      OBVIOUS
    <3>2. [[thread |-> rows] EXCEPT !.thread = Append(@, row)] = [thread |-> more]
      BY <3>1
    <3>3. PICK log, longer : log = [thread |-> rows] /\ longer = [thread |-> more]
      OBVIOUS
    <3>4. [<<log>> EXCEPT ![1] = longer] = <<longer>>
      OBVIOUS
    <3>5. [<<log>> EXCEPT ![1].thread = Append(@, row)] = [<<log>> EXCEPT ![1] = [log EXCEPT !.thread = Append(@, row)]]
      OBVIOUS
    <3> QED  BY <3>1, <3>2, <3>3, <3>4, <3>5
  <2>2. PICK mws : mws = run.middlewares
    OBVIOUS
  <2>3. [mws EXCEPT ![mw][1].thread = Append(@, row)] = [mws EXCEPT ![mw] = <<[thread |-> Append(rows, row)]>>]
    BY <1>3, <2>1, <2>2
  <2> QED  BY <1>2, <2>2, <2>3
<1>5. /\ DOMAIN new = {"middlewares", "clients", "pings", "totals"}
      /\ new.middlewares = [run.middlewares EXCEPT ![mw] = <<[thread |-> Append(rows, row)]>>]
      /\ new.clients = run.clients
  BY <1>4 DEF RunGood
<1>6. DOMAIN new.middlewares = Range(Middlewares) /\ DOMAIN new.clients = Range(ClientLogs)
  BY <1>5 DEF RunGood
<1>7. ASSUME NEW other \in Range(Middlewares) PROVE RequestLogGood(new.middlewares[other], other)
  <2>1. CASE other # mw
    <3>1. new.middlewares[other] = run.middlewares[other]
      BY <1>5, <2>1
    <3> QED  BY <3>1 DEF RunGood
  <2>2. CASE other = mw
    <3>1. new.middlewares[mw] = <<[thread |-> Append(rows, row)]>>
      BY <1>5 DEF RunGood
    <3>2. row \in RequestRows(mw)
      BY <1>1 DEF RequestRows
    <3>3. /\ Append(rows, row) \in Seq(RequestRows(mw))
          /\ 1 \in DOMAIN Append(rows, row)
          /\ Append(rows, row)[1] = rows[1]
      <4>1. PICK S : S = RequestRows(mw)
        OBVIOUS
      <4>2. rows \in Seq(S) /\ row \in S /\ 1 \in 1 .. Len(rows)
        BY <1>3, <3>2, <4>1
      <4> QED  BY <4>1, <4>2
    <3> QED  BY <1>3, <2>2, <3>1, <3>3 DEF RequestLogGood
  <2> QED  BY <2>1, <2>2
<1>8. ASSUME NEW log \in Range(ClientLogs) PROVE ClientLogGood(new.clients[log], n + 1)
  <2>1. ClientLogGood(run.clients[log], n)
    BY DEF RunGood
  <2>2. PICK w \in Nat : w = Warmup
    BY ChartAssumption
  <2> QED  BY <1>5, <2>1, <2>2 DEF ClientLogGood
<1> QED
  BY <1>1, <1>2, <1>5, <1>6, <1>7, <1>8 DEF RunGood

\* A client prints a second more.
LEMMA SecondKeepsGood ==
    ASSUME NEW run, NEW n \in Nat, RunGood(run, n), NEW client \in Range(ClientLogs),
           NEW measurement \in Measurements
    PROVE  RunGood([run EXCEPT !.clients[client] = Append(@, [timestep |-> Len(@)] ++ measurement)], n + 1)
<1>1. PICK log : log = run.clients[client]
  OBVIOUS
<1>2. PICK row : row = [timestep |-> Len(log)] ++ measurement
  OBVIOUS
<1>3. PICK new : new = [run EXCEPT !.clients[client] = Append(@, [timestep |-> Len(@)] ++ measurement)]
  OBVIOUS
<1>4. new = [run EXCEPT !.clients = [run.clients EXCEPT ![client] = Append(log, row)]]
  BY <1>1, <1>2, <1>3
<1>5. /\ DOMAIN new = {"middlewares", "clients", "pings", "totals"}
      /\ new.middlewares = run.middlewares
      /\ new.clients = [run.clients EXCEPT ![client] = Append(log, row)]
  BY <1>4 DEF RunGood
<1>6. DOMAIN new.middlewares = Range(Middlewares) /\ DOMAIN new.clients = Range(ClientLogs)
  BY <1>5 DEF RunGood
<1>7. ASSUME NEW mw \in Range(Middlewares) PROVE RequestLogGood(new.middlewares[mw], mw)
  BY <1>5 DEF RunGood
<1>8. PICK w \in Nat : w = Warmup
  BY ChartAssumption
<1>9. ASSUME NEW other \in Range(ClientLogs) PROVE ClientLogGood(new.clients[other], n + 1)
  <2>1. ClientLogGood(run.clients[other], n)
    BY DEF RunGood
  <2>2. CASE other # client
    <3>1. new.clients[other] = run.clients[other]
      BY <1>5, <2>2
    <3> QED  BY <1>8, <2>1, <3>1 DEF ClientLogGood
  <2>3. CASE other = client
    <3>1. new.clients[client] = Append(log, row)
      BY <1>5 DEF RunGood
    <3>2. log \in Seq(ClientRows) /\ (\A i \in DOMAIN log : log[i].timestep = i - 1) /\ w + 1 <= Len(log) /\ Len(log) <= w + 1 + n
      BY <1>1, <1>8, <2>1, <2>3 DEF ClientLogGood
    <3>3. PICK k \in Nat : k = Len(log)
      BY <3>2
    <3>4. row \in ClientRows /\ row.timestep = k
      BY <1>2, <3>3 DEF ClientRows, ClientRow, ++
    <3>5. /\ Append(log, row) \in Seq(ClientRows)
          /\ Len(Append(log, row)) = k + 1
          /\ DOMAIN Append(log, row) = 1 .. (k + 1)
          /\ \A i \in 1 .. k : Append(log, row)[i] = log[i]
          /\ Append(log, row)[k + 1] = row
      <4>1. PICK S : S = ClientRows
        OBVIOUS
      <4>2. log \in Seq(S) /\ row \in S /\ Len(log) = k
        BY <3>2, <3>3, <3>4, <4>1
      <4>3. PICK longer : longer = Append(log, row)
        OBVIOUS
      <4>4. longer \in Seq(S) /\ Len(longer) = k + 1 /\ DOMAIN longer = 1 .. (k + 1)
        BY <4>2, <4>3
      <4>5. \A i \in 1 .. k : longer[i] = log[i]
        BY <4>2, <4>3
      <4>6. longer[k + 1] = row
        BY <4>2, <4>3
      <4> QED  BY <4>1, <4>3, <4>4, <4>5, <4>6
    <3>6. \A i \in 1 .. (k + 1) : Append(log, row)[i].timestep = i - 1
      <4>1. SUFFICES ASSUME NEW i \in 1 .. (k + 1) PROVE Append(log, row)[i].timestep = i - 1
        OBVIOUS
      <4>2. CASE i = k + 1
        BY <3>4, <3>5, <4>2
      <4>3. CASE i # k + 1
        <5>1. i \in 1 .. k
          BY ONLY <4>3, i \in 1 .. (k + 1), k \in Nat
        <5>2. DOMAIN log = 1 .. k
          <6>1. PICK S : S = ClientRows
            OBVIOUS
          <6>2. log \in Seq(S) /\ k = Len(log)
            BY <3>2, <3>3, <6>1
          <6> QED  BY ONLY <6>2
        <5> QED  BY <3>2, <3>5, <5>1, <5>2
      <4> QED  BY <4>2, <4>3
    <3>7. w + 1 <= k + 1 /\ k + 1 <= w + 1 + (n + 1)
      BY <3>2, <3>3
    <3> QED  BY <1>8, <2>3, <3>1, <3>5, <3>6, <3>7 DEF ClientLogGood
  <2> QED  BY <2>2, <2>3
<1> QED
  BY <1>3, <1>5, <1>6, <1>7, <1>9 DEF RunGood

\* Logs that are good when n lines are written are good when n + 1 are: another run
\* has got the line.
LEMMA RunStaysGood ==
    ASSUME NEW run, NEW n \in Nat, RunGood(run, n)
    PROVE  RunGood(run, n + 1)
<1>1. PICK w \in Nat : w = Warmup
  BY ChartAssumption
<1>2. ASSUME NEW log \in Range(ClientLogs) PROVE ClientLogGood(run.clients[log], n + 1)
  <2>1. ClientLogGood(run.clients[log], n)
    BY DEF RunGood
  <2> QED  BY <1>1, <2>1 DEF ClientLogGood
<1> QED
  BY <1>2 DEF RunGood

\* The runs but one stay what they are.
LEMMA OneRunChanges ==
    ASSUME LogsGood, NEW name, NEW rep, NEW run,
           inputdir' = [inputdir EXCEPT ![name][rep] = run],
           UNCHANGED plan, lines < MaxLines, lines' = lines + 1,
           name \in DOMAIN inputdir /\ rep \in DOMAIN inputdir[name] => RunGood(run, lines + 1)
    PROVE  LogsGood'
<1>1. lines' \in Nat /\ lines' <= MaxLines
  BY EvaluationAssumption, SMTT(30) DEF LogsGood
<1>2. DOMAIN inputdir' = DOMAIN inputdir /\ \A n \in DOMAIN inputdir : DOMAIN inputdir'[n] = DOMAIN inputdir[n]
  OBVIOUS
<1>3. \A r \in Range(plan) : r[1] \in DOMAIN inputdir' /\ r[2] \in DOMAIN inputdir'[r[1]]
  BY <1>2 DEF LogsGood
<1>4. ASSUME NEW n \in DOMAIN inputdir, NEW r \in DOMAIN inputdir[n] PROVE RunGood(inputdir'[n][r], lines + 1)
  <2>1. CASE n = name /\ r = rep
    <3>1. inputdir'[n][r] = run
      BY <2>1
    <3> QED  BY <2>1, <3>1
  <2>2. CASE ~(n = name /\ r = rep)
    <3>1. inputdir'[n][r] = inputdir[n][r]
      BY <2>2
    <3>2. RunGood(inputdir[n][r], lines) /\ lines \in Nat
      BY DEF LogsGood
    <3> QED  BY <3>1, <3>2, RunStaysGood
  <2> QED  BY <2>1, <2>2
<1>5. \A n \in DOMAIN inputdir' : \A r \in DOMAIN inputdir'[n] : RunGood(inputdir'[n][r], lines')
  BY <1>2, <1>4
<1> QED
  BY <1>1, <1>3, <1>5 DEF LogsGood

\* Every log of a run has the form that the scripts rely on.
LEMMA LogsGoodInvariant ==
    Spec => []LogsGood
<1>1. Init => LogsGood
  <2>1. SUFFICES ASSUME Init PROVE LogsGood
    OBVIOUS
  <2>2. \A r \in Range(plan) : r[1] \in NamesOf(plan) /\ r[2] \in RepsOf(plan, r[1])
    BY DEF Range, NamesOf, RepsOf
  <2>3. lines = 0 /\ inputdir = [name \in NamesOf(plan) |-> [rep \in RepsOf(plan, name) |-> BlankRun]]
    BY <2>1 DEF Init
  <2>4. 0 <= MaxLines
    BY EvaluationAssumption
  <2>5. \A r \in Range(plan) : r[1] \in DOMAIN inputdir /\ r[2] \in DOMAIN inputdir[r[1]]
    BY <2>2, <2>3
  <2>6. \A name \in DOMAIN inputdir : \A rep \in DOMAIN inputdir[name] : RunGood(inputdir[name][rep], lines)
    BY <2>3, BlankRunGood
  <2> QED  BY <2>3, <2>4, <2>5, <2>6 DEF LogsGood
<1>2. LogsGood /\ [Next]_vars => LogsGood'
  <2>1. SUFFICES ASSUME LogsGood, [Next]_vars PROVE LogsGood'
    OBVIOUS
  <2>2. ASSUME NEW mw \in Range(Middlewares), NEW timing \in Timings, NEW clock \in Clocks,
               LogRequest(mw, timing, clock)
        PROVE  LogsGood'
    <3>1. PICK name, rep : name = Name_ /\ rep = Rep_
      OBVIOUS
    <3>2. PICK run : run = [inputdir[name][rep] EXCEPT !.middlewares[mw][1].thread =
                                Append(@, Row(StartOf(mw) + clock, timing))]
      OBVIOUS
    <3>3. inputdir' = [inputdir EXCEPT ![name][rep] = run]
      BY <2>2, <3>1, <3>2 DEF LogRequest
    <3>4. ASSUME name \in DOMAIN inputdir, rep \in DOMAIN inputdir[name] PROVE RunGood(run, lines + 1)
      <4>1. RunGood(inputdir[name][rep], lines) /\ lines \in Nat /\ clock \in Nat
        BY <2>1, <3>4, EvaluationAssumption DEF LogsGood
      <4> QED  BY <3>2, <4>1, RequestKeepsGood
    <3>5. UNCHANGED plan /\ lines < MaxLines /\ lines' = lines + 1
      BY <2>2 DEF LogRequest
    <3>6. name \in DOMAIN inputdir /\ rep \in DOMAIN inputdir[name] => RunGood(run, lines + 1)
      BY <3>4
    <3> QED  BY <2>1, <3>3, <3>5, <3>6, OneRunChanges
  <2>3. ASSUME NEW client \in Range(ClientLogs), NEW measurement \in Measurements,
               LogSecond(client, measurement)
        PROVE  LogsGood'
    <3>1. PICK name, rep : name = Name_ /\ rep = Rep_
      OBVIOUS
    <3>2. PICK run : run = [inputdir[name][rep] EXCEPT !.clients[client] =
                                Append(@, [timestep |-> Len(@)] ++ measurement)]
      OBVIOUS
    <3>3. inputdir' = [inputdir EXCEPT ![name][rep] = run]
      BY <2>3, <3>1, <3>2 DEF LogSecond
    <3>4. ASSUME name \in DOMAIN inputdir, rep \in DOMAIN inputdir[name] PROVE RunGood(run, lines + 1)
      <4>1. RunGood(inputdir[name][rep], lines) /\ lines \in Nat
        BY <2>1, <3>4 DEF LogsGood
      <4> QED  BY <3>2, <4>1, SecondKeepsGood
    <3>5. UNCHANGED plan /\ lines < MaxLines /\ lines' = lines + 1
      BY <2>3 DEF LogSecond
    <3>6. name \in DOMAIN inputdir /\ rep \in DOMAIN inputdir[name] => RunGood(run, lines + 1)
      BY <3>4
    <3> QED  BY <2>1, <3>3, <3>5, <3>6, OneRunChanges
  <2>4. CASE UNCHANGED <<plan, inputdir, lines>>
    BY <2>1, <2>4 DEF LogsGood
  <2> QED
    BY <2>1, <2>2, <2>3, <2>4 DEF Next, vars, NextRun, Evaluate
<1> QED
  BY <1>1, <1>2, PTL DEF Spec

-----------------------------------------------------------------------------
(* The rows of the requests.                                               *)

RowsOf(run, i) == run.middlewares[Middlewares[i]][1].thread

\* A line as it is read from the file, and what extract_metrics makes of it.
LineRow(i, n, row) == row ++ [thread |-> "thread", line |-> n, middleware |-> i]

MetricRow(r, origin) ==
    Kept(r, origin) ++ WorkerTimes(r) ++ ProcessingTimes(r) ++ TimesSince(r, r.firstReadTime)
        ++ [readTime_ms |-> r.arrivalTime - r.firstReadTime]

MetricColumns ==
    {"thread", "line", "middleware", "requestType", "initializeClockTime", "queueLength", "numHits",
     "numKeysRequested", "timestep", "queueTime_ms", "workerServiceTime_ms", "memcachedRTT_ms",
     "workerPreProcessingTime_ms", "workerPostProcessingTime_ms", "netthreadServiceTime_ms",
     "responseTime_ms", "readTime_ms"}

\* What a row of a log has.
LEMMA RequestRowFacts ==
    ASSUME NEW mw, NEW row \in RequestRows(mw)
    PROVE  /\ row.initializeClockTime \in Nat /\ StartOf(mw) <= row.initializeClockTime
           /\ row.requestType \in RequestTypes
           /\ row.enqueueTime \in Int /\ row.dequeueTime \in Int /\ row.completedTime \in Int
           /\ row.firstReadTime \in Int /\ row.queueLength \in Int
           /\ {"requestType", "initializeClockTime", "enqueueTime", "dequeueTime", "completedTime",
               "firstReadTime", "queueLength"} \subseteq DOMAIN row
           /\ "line" \notin DOMAIN row
<1>1. PICK clock \in Nat, t \in Timings : row = Row(StartOf(mw) + clock, t)
  BY DEF RequestRows
<1>2. PICK head : head = [initializeClockTime |-> StartOf(mw) + clock, numHits |-> 1, numKeysRequested |-> 1]
  OBVIOUS
<1>3. row = head ++ t
  BY <1>1, <1>2 DEF Row
<1>4. DOMAIN head = {"initializeClockTime", "numHits", "numKeysRequested"}
      /\ head["initializeClockTime"] = StartOf(mw) + clock
  BY <1>2
<1>5. DOMAIN t = {"requestType", "firstReadTime", "arrivalTime", "previousArrivalTime", "enqueueTime",
                  "dequeueTime", "beforeSendTime", "afterReceiveTime", "completedTime", "queueLength"}
  BY EvaluationAssumption
<1>6. /\ t.requestType \in RequestTypes /\ t.firstReadTime \in Int /\ t.enqueueTime \in Int
      /\ t.dequeueTime \in Int /\ t.completedTime \in Int /\ t.queueLength \in Int
  BY EvaluationAssumption
<1>7. DOMAIN row = DOMAIN head \union DOMAIN t
  BY <1>3 DEF ++
<1>8. \A x \in DOMAIN t : x \notin DOMAIN head => row[x] = t[x]
  BY <1>3 DEF ++
<1>9. \A x \in DOMAIN head : row[x] = head[x]
  BY <1>3 DEF ++
<1>10. /\ row.requestType = t.requestType /\ row.firstReadTime = t.firstReadTime
       /\ row.enqueueTime = t.enqueueTime /\ row.dequeueTime = t.dequeueTime
       /\ row.completedTime = t.completedTime /\ row.queueLength = t.queueLength
  BY <1>4, <1>5, <1>8
<1>11. row.initializeClockTime = StartOf(mw) + clock
  BY <1>4, <1>9
<1>12. row.initializeClockTime \in Nat /\ StartOf(mw) <= row.initializeClockTime
  BY <1>11, StartOfType
<1> QED
  BY <1>4, <1>5, <1>6, <1>7, <1>10, <1>12

\* A line keeps the columns of the log, and its number.
LEMMA LineRowFacts ==
    ASSUME NEW i, NEW n, NEW row, "line" \notin DOMAIN row
    PROVE  /\ LineRow(i, n, row).line = n
           /\ \A x \in DOMAIN row : LineRow(i, n, row)[x] = row[x]
<1>1. PICK place : place = [thread |-> "thread", line |-> n, middleware |-> i]
  OBVIOUS
<1>2. DOMAIN place = {"thread", "line", "middleware"} /\ place["line"] = n
  BY <1>1
<1>3. PICK r : r = row ++ place
  OBVIOUS
<1>4. r["line"] = n /\ \A x \in DOMAIN row : r[x] = row[x]
  BY <1>2, <1>3 DEF ++
<1> QED
  BY <1>1, <1>3, <1>4 DEF LineRow

\* The columns that the figures show, and those that tell rows apart.
LEMMA MetricRowFacts ==
    ASSUME NEW r, NEW origin
    PROVE  /\ DOMAIN MetricRow(r, origin) = MetricColumns
           /\ MetricRow(r, origin).line = r.line
           /\ MetricRow(r, origin).timestep = r.initializeClockTime - origin
           /\ MetricRow(r, origin).queueLength = r.queueLength
           /\ MetricRow(r, origin).queueTime_ms = r.dequeueTime - r.enqueueTime
           /\ MetricRow(r, origin).responseTime_ms = r.completedTime - r.firstReadTime
<1>1. PICK a : a = Kept(r, origin)
  OBVIOUS
<1>2. PICK b : b = WorkerTimes(r)
  OBVIOUS
<1>3. PICK c : c = ProcessingTimes(r)
  OBVIOUS
<1>4. PICK d : d = TimesSince(r, r.firstReadTime)
  OBVIOUS
<1>5. PICK e : e = [readTime_ms |-> r.arrivalTime - r.firstReadTime]
  OBVIOUS
<1>6. DOMAIN a = {"thread", "line", "middleware", "requestType", "initializeClockTime", "queueLength", "numHits",
                  "numKeysRequested", "timestep"}
  BY <1>1 DEF Kept
<1>7. DOMAIN b = {"queueTime_ms", "workerServiceTime_ms", "memcachedRTT_ms"}
  BY <1>2 DEF WorkerTimes
<1>8. DOMAIN c = {"workerPreProcessingTime_ms", "workerPostProcessingTime_ms"}
  BY <1>3 DEF ProcessingTimes
<1>9. DOMAIN d = {"netthreadServiceTime_ms", "responseTime_ms"}
  BY <1>4 DEF TimesSince
<1>10. DOMAIN e = {"readTime_ms"}
  BY <1>5
<1>11. a["line"] = r.line /\ a["timestep"] = r.initializeClockTime - origin /\ a["queueLength"] = r.queueLength
  BY <1>1 DEF Kept
<1>12. b["queueTime_ms"] = r.dequeueTime - r.enqueueTime
  BY <1>2 DEF WorkerTimes
<1>13. d["responseTime_ms"] = r.completedTime - r.firstReadTime
  BY <1>4 DEF TimesSince
<1>14. PICK ab : ab = a ++ b
  OBVIOUS
<1>15. DOMAIN ab = DOMAIN a \union DOMAIN b /\ (\A x \in DOMAIN a : ab[x] = a[x]) /\ ab["queueTime_ms"] = b["queueTime_ms"]
  BY <1>6, <1>7, <1>14 DEF ++
<1>16. PICK abc : abc = ab ++ c
  OBVIOUS
<1>17. DOMAIN abc = DOMAIN ab \union DOMAIN c /\ \A x \in DOMAIN ab : abc[x] = ab[x]
  BY <1>16 DEF ++
<1>18. PICK abcd : abcd = abc ++ d
  OBVIOUS
<1>19. /\ DOMAIN abcd = DOMAIN abc \union DOMAIN d
       /\ \A x \in DOMAIN abc : abcd[x] = abc[x]
       /\ abcd["responseTime_ms"] = d["responseTime_ms"]
  <2>1. "responseTime_ms" \notin DOMAIN abc
    BY <1>6, <1>7, <1>8, <1>15, <1>17
  <2> QED  BY <1>9, <1>18, <2>1 DEF ++
<1>20. PICK all : all = abcd ++ e
  OBVIOUS
<1>21. DOMAIN all = DOMAIN abcd \union DOMAIN e /\ \A x \in DOMAIN abcd : all[x] = abcd[x]
  BY <1>20 DEF ++
<1>22. MetricRow(r, origin) = all
  BY <1>1, <1>2, <1>3, <1>4, <1>5, <1>14, <1>16, <1>18, <1>20 DEF MetricRow
<1>23. DOMAIN all = MetricColumns
  BY <1>6, <1>7, <1>8, <1>9, <1>10, <1>15, <1>17, <1>19, <1>21 DEF MetricColumns
<1>24. all["line"] = a["line"] /\ all["timestep"] = a["timestep"] /\ all["queueLength"] = a["queueLength"]
  BY <1>6, <1>15, <1>17, <1>19, <1>21
<1>25. all["queueTime_ms"] = b["queueTime_ms"]
  BY <1>7, <1>15, <1>17, <1>19, <1>21
<1>26. all["responseTime_ms"] = d["responseTime_ms"]
  BY <1>9, <1>19, <1>21
<1> QED
  BY <1>11, <1>12, <1>13, <1>22, <1>23, <1>24, <1>25, <1>26

\* What the scripts make of every line of the logs.
MetricRows(run) ==
    [i \in DOMAIN Middlewares |-> [n \in DOMAIN RowsOf(run, i) |->
        MetricRow(LineRow(i, n, RowsOf(run, i)[n]), StartOf(Middlewares[i]))]]

\* The lines of a log of a run.
LEMMA RunRows ==
    ASSUME NEW run, NEW k, RunGood(run, k), NEW i \in DOMAIN Middlewares
    PROVE  /\ IsFiniteSet(DOMAIN RowsOf(run, i)) /\ 1 \in DOMAIN RowsOf(run, i)
           /\ RowsOf(run, i)[1].initializeClockTime = StartOf(Middlewares[i])
           /\ RowsOf(run, i)[1].requestType = "GET"
           /\ \A n \in DOMAIN RowsOf(run, i) : RowsOf(run, i)[n] \in RequestRows(Middlewares[i])
           /\ Requests(run, Middlewares)[i] =
                {LineRow(i, n, RowsOf(run, i)[n]) : n \in DOMAIN RowsOf(run, i)}
<1>1. PICK mw : mw = Middlewares[i]
  OBVIOUS
<1>2. mw \in Range(Middlewares)
  BY <1>1 DEF Range
<1>3. PICK rows \in Seq(RequestRows(mw)) : /\ run.middlewares[mw] = <<[thread |-> rows]>>
                                           /\ 1 \in DOMAIN rows
                                           /\ rows[1] = Row(StartOf(mw), FirstTiming)
  BY <1>2 DEF RunGood, RequestLogGood
<1>4. RowsOf(run, i) = rows
  BY <1>1, <1>3 DEF RowsOf
<1>5. IsFiniteSet(DOMAIN rows) /\ \A n \in DOMAIN rows : rows[n] \in RequestRows(mw)
  <2>1. PICK S : S = RequestRows(mw)
    OBVIOUS
  <2>2. rows \in Seq(S)
    BY <1>3, <2>1
  <2>3. Len(rows) \in Int /\ DOMAIN rows = 1 .. Len(rows) /\ \A n \in DOMAIN rows : rows[n] \in S
    BY <2>2
  <2>4. PICK len \in Int : len = Len(rows)
    BY <2>3
  <2>5. IsFiniteSet(1 .. len)
    <3>1. PICK one \in Int : one = 1
      OBVIOUS
    <3>2. IsFiniteSet(one .. len)
      BY FS_Interval
    <3> QED  BY <3>1, <3>2
  <2> QED  BY <2>1, <2>3, <2>4, <2>5
<1>6. rows[1].initializeClockTime = StartOf(mw) /\ rows[1].requestType = "GET"
  <2>1. PICK head, t : head = [initializeClockTime |-> StartOf(mw), numHits |-> 1, numKeysRequested |-> 1] /\ t = FirstTiming
    OBVIOUS
  <2>2. rows[1] = head ++ t
    BY <1>3, <2>1 DEF Row
  <2>3. DOMAIN head = {"initializeClockTime", "numHits", "numKeysRequested"} /\ head["initializeClockTime"] = StartOf(mw)
    BY <2>1
  <2>4. "requestType" \in DOMAIN t /\ t["requestType"] = "GET"
    BY <2>1, FirstTimingIsGet, EvaluationAssumption
  <2> QED  BY <2>2, <2>3, <2>4 DEF ++
<1>7. get_only_subdir(run.middlewares[mw]) = [thread |-> rows]
  BY <1>3 DEF get_only_subdir
<1>8. concatenate_requestlogs([thread |-> rows], i) = {LineRow(i, n, rows[n]) : n \in DOMAIN rows}
  <2>1. PICK log : log = [thread |-> rows]
    OBVIOUS
  <2>2. DOMAIN log = {"thread"} /\ log["thread"] = rows
    BY <2>1
  <2>3. concatenate_requestlogs(log, i) =
            UNION {{log[thread][n] ++ [thread |-> thread, line |-> n, middleware |-> i] :
                        n \in DOMAIN log[thread]} : thread \in DOMAIN log}
    BY DEF concatenate_requestlogs
  <2>4. PICK lines_ : lines_ = {LineRow(i, n, rows[n]) : n \in DOMAIN rows}
    OBVIOUS
  <2>5. {log["thread"][n] ++ [thread |-> "thread", line |-> n, middleware |-> i] :
                n \in DOMAIN log["thread"]} = lines_
    BY <2>2, <2>4 DEF LineRow
  <2>6. {{log[thread][n] ++ [thread |-> thread, line |-> n, middleware |-> i] :
                n \in DOMAIN log[thread]} : thread \in DOMAIN log} = {lines_}
    <3> DEFINE part(thread) == {log[thread][n] ++ [thread |-> thread, line |-> n, middleware |-> i] :
                                    n \in DOMAIN log[thread]}
    <3>1. part("thread") = lines_
      BY <2>5
    <3> HIDE DEF part
    <3>2. {part(thread) : thread \in DOMAIN log} = {lines_}
      BY <2>2, <3>1
    <3> QED  BY <3>2 DEF part
  <2>7. UNION {lines_} = lines_
    OBVIOUS
  <2> QED  BY <2>1, <2>3, <2>4, <2>6, <2>7
<1>9. Requests(run, Middlewares)[i] = concatenate_requestlogs([thread |-> rows], i)
  BY <1>1, <1>7, TabulatedIs DEF Requests
<1> QED
  BY <1>1, <1>4, <1>5, <1>3, <1>6, <1>8, <1>9

\* The rows of a middleware begin at its start, when the first line is among
\* those that are read.
LEMMA ExtractedRows ==
    ASSUME NEW run, NEW k, RunGood(run, k), NEW i \in DOMAIN Middlewares,
           NEW L \in SUBSET DOMAIN RowsOf(run, i), 1 \in L
    PROVE  extract_metrics({LineRow(i, n, RowsOf(run, i)[n]) : n \in L}) = {MetricRows(run)[i][n] : n \in L}
<1>1. PICK rows, start : rows = RowsOf(run, i) /\ start = StartOf(Middlewares[i])
  OBVIOUS
<1>2. PICK requests : requests = {LineRow(i, n, rows[n]) : n \in L}
  OBVIOUS
<1>3. \A n \in L : /\ rows[n].initializeClockTime \in Nat
                   /\ start <= rows[n].initializeClockTime
                   /\ LineRow(i, n, rows[n]).initializeClockTime = rows[n].initializeClockTime
  <2>1. SUFFICES ASSUME NEW n \in L
                 PROVE  /\ rows[n].initializeClockTime \in Nat
                        /\ start <= rows[n].initializeClockTime
                        /\ LineRow(i, n, rows[n]).initializeClockTime = rows[n].initializeClockTime
    OBVIOUS
  <2>2. rows[n] \in RequestRows(Middlewares[i])
    BY <1>1, RunRows
  <2>3. /\ rows[n].initializeClockTime \in Nat
        /\ start <= rows[n].initializeClockTime
        /\ "initializeClockTime" \in DOMAIN rows[n] /\ "line" \notin DOMAIN rows[n]
    BY <1>1, <2>2, RequestRowFacts
  <2> QED  BY <2>3, LineRowFacts
<1>4. Origin(requests) = start
  <2>1. PICK clocks : clocks = {r.initializeClockTime : r \in requests}
    OBVIOUS
  <2>2. \A c \in clocks : c \in Nat /\ start <= c
    BY <1>2, <1>3, <2>1
  <2>3. start \in clocks
    <3>1. rows[1].initializeClockTime = start
      BY <1>1, RunRows
    <3> QED  BY <1>2, <1>3, <2>1, <3>1
  <2>4. start \in Nat
    BY <1>1, StartOfType
  <2>5. Min(clocks) = start
    <3>1. \E x \in clocks : \A y \in clocks : x <= y
      BY <2>2, <2>3
    <3>2. PICK least : least = Min(clocks)
      OBVIOUS
    <3>3. least \in clocks /\ \A y \in clocks : least <= y
      BY <3>1, <3>2 DEF Min
    <3>4. least <= start /\ start <= least
      BY <2>2, <2>3, <3>3
    <3> QED  BY <2>2, <2>4, <3>2, <3>3, <3>4
  <2> QED  BY <2>1, <2>5 DEF Origin
<1>5. extract_metrics(requests) = {MetricRow(r, start) : r \in requests}
  BY <1>4 DEF extract_metrics, MetricRow
<1>6. \A n \in L : MetricRows(run)[i][n] = MetricRow(LineRow(i, n, rows[n]), start)
  BY <1>1 DEF MetricRows
<1>7. {MetricRow(r, start) : r \in requests} = {MetricRows(run)[i][n] : n \in L}
  BY <1>2, <1>6
<1> QED
  BY <1>1, <1>2, <1>5, <1>7

\* The row of a line.
LEMMA RunMetrics ==
    ASSUME NEW run, NEW k, RunGood(run, k), NEW i \in DOMAIN Middlewares, NEW n \in DOMAIN RowsOf(run, i),
           NEW row, row = RowsOf(run, i)[n], NEW metric, metric = MetricRows(run)[i][n]
    PROVE  /\ DOMAIN metric = MetricColumns
           /\ metric.line = n
           /\ metric.timestep = TimestepOf(i, row) /\ metric.timestep \in Nat
           /\ metric.queueLength = row.queueLength /\ metric.queueLength \in Int
           /\ metric.queueTime_ms = row.dequeueTime - row.enqueueTime /\ metric.queueTime_ms \in Int
           /\ metric.responseTime_ms = row.completedTime - row.firstReadTime /\ metric.responseTime_ms \in Int
<1>1. PICK start : start = StartOf(Middlewares[i])
  OBVIOUS
<1>2. PICK line : line = LineRow(i, n, row)
  OBVIOUS
<1>3. metric = MetricRow(line, start)
  BY <1>1, <1>2 DEF MetricRows
<1>4. row \in RequestRows(Middlewares[i])
  BY RunRows
<1>5. /\ row.initializeClockTime \in Nat /\ start <= row.initializeClockTime
      /\ row.enqueueTime \in Int /\ row.dequeueTime \in Int /\ row.completedTime \in Int
      /\ row.firstReadTime \in Int /\ row.queueLength \in Int
      /\ {"requestType", "initializeClockTime", "enqueueTime", "dequeueTime", "completedTime",
               "firstReadTime", "queueLength"} \subseteq DOMAIN row
      /\ "line" \notin DOMAIN row
  BY <1>1, <1>4, RequestRowFacts
<1>6. line.line = n /\ \A x \in DOMAIN row : line[x] = row[x]
  BY <1>2, <1>5, LineRowFacts
<1>7. /\ line.initializeClockTime = row.initializeClockTime /\ line.enqueueTime = row.enqueueTime
      /\ line.dequeueTime = row.dequeueTime /\ line.completedTime = row.completedTime
      /\ line.firstReadTime = row.firstReadTime /\ line.queueLength = row.queueLength
  BY <1>5, <1>6
<1>8. /\ DOMAIN metric = MetricColumns /\ metric.line = line.line
      /\ metric.timestep = line.initializeClockTime - start
      /\ metric.queueLength = line.queueLength
      /\ metric.queueTime_ms = line.dequeueTime - line.enqueueTime
      /\ metric.responseTime_ms = line.completedTime - line.firstReadTime
  BY <1>3, MetricRowFacts
<1>9. start \in Nat
  BY <1>1, StartOfType
<1>10. metric.timestep = TimestepOf(i, row) /\ metric.timestep \in Nat
  BY <1>1, <1>5, <1>7, <1>8, <1>9 DEF TimestepOf
<1> QED
  BY <1>5, <1>6, <1>7, <1>8, <1>10

-----------------------------------------------------------------------------
(* The metrics of a repetition.                                            *)

WindowLines(run) ==
    [i \in DOMAIN Middlewares |-> {n \in DOMAIN RowsOf(run, i) : InWindow(i, RowsOf(run, i)[n])}]

GetLines(run) ==
    [i \in DOMAIN Middlewares |->
        {n \in DOMAIN RowsOf(run, i) : RowsOf(run, i)[n].requestType # "SET" /\ InWindow(i, RowsOf(run, i)[n])}]

\* There are finitely many middlewares.
LEMMA MiddlewaresFinite ==
    IsFiniteSet(DOMAIN Middlewares)
<1>1. PICK S : S = Range(Middlewares)
  OBVIOUS
<1>2. Middlewares \in Seq(S)
  BY <1>1, EvaluationAssumption
<1>3. PICK len \in Int, one \in Int : len = Len(Middlewares) /\ one = 1 /\ DOMAIN Middlewares = one .. len
  BY <1>2
<1> QED
  BY <1>3, FS_Interval

\* The cut keeps the lines between warm-up and cool-down.
LEMMA CutRows ==
    ASSUME NEW run, NEW k, RunGood(run, k), NEW i \in DOMAIN Middlewares,
           NEW L \in SUBSET DOMAIN RowsOf(run, i),
           NEW kept, kept = {n \in L : InWindow(i, RowsOf(run, i)[n])}
    PROVE  cut_requests({MetricRows(run)[i][n] : n \in L}, Warmup, Cooldown) = {MetricRows(run)[i][n] : n \in kept}
<1>1. PICK from, to : from = Warmup * TicksPerSecond /\ to = Cooldown * TicksPerSecond
  OBVIOUS
<1>2. from \in Int /\ to \in Int
  <2>1. PICK w \in Nat, c \in Nat, t \in Nat : w = Warmup /\ c = Cooldown /\ t = TicksPerSecond
    BY ChartAssumption, RequestLogsAssumption
  <2>2. w * t \in Int /\ c * t \in Int
    OBVIOUS
  <2> QED  BY <1>1, <2>1, <2>2
<1>3. PICK m : m = MetricRows(run)[i]
  OBVIOUS
<1>4. \A n \in L : m[n].timestep \in Nat /\ m[n].timestep = TimestepOf(i, RowsOf(run, i)[n])
  BY <1>3, RunMetrics
<1>5. \A n \in L : n \in kept <=> from <= m[n].timestep /\ m[n].timestep <= to
  BY <1>1, <1>2, <1>4 DEF InWindow
<1>6. cut_requests({m[n] : n \in L}, Warmup, Cooldown) =
        {r \in {m[n] : n \in L} : from <= r["timestep"] /\ r["timestep"] <= to}
  BY <1>1 DEF cut_requests, cut_away_warmup_cooldown
<1>7. {r \in {m[n] : n \in L} : from <= r["timestep"] /\ r["timestep"] <= to} = {m[n] : n \in kept}
  BY <1>5
<1> QED
  BY <1>3, <1>6, <1>7

\* Frames that are made of lines L[i] of the middlewares I.
LEMMA FramesOfLines ==
    ASSUME NEW run, NEW k, RunGood(run, k), NEW I \in SUBSET DOMAIN Middlewares,
           NEW L, \A i \in I : L[i] \in SUBSET DOMAIN RowsOf(run, i),
           NEW frames, DOMAIN frames = I,
           \A i \in I : frames[i] = aggregate_over_windows({MetricRows(run)[i][n] : n \in L[i]})
    PROVE  /\ \A i \in I : WindowsAre(frames[i], L[i], MetricRows(run)[i], MetricColumns)
           /\ IsFiniteSet(PairsOf(I, L))
           /\ WindowsAre(aggregate_over_middlewares(frames), PairsOf(I, L), Joint(I, L, MetricRows(run)), MetricColumns)
<1>1. PICK m : m = MetricRows(run)
  OBVIOUS
<1>2. "throughput_mw" \notin MetricColumns
  BY DEF MetricColumns
<1>3. \A i \in I : IsFiniteSet(L[i])
  <2>1. SUFFICES ASSUME NEW i \in I PROVE IsFiniteSet(L[i])
    OBVIOUS
  <2>2. IsFiniteSet(DOMAIN RowsOf(run, i))
    BY RunRows
  <2> QED  BY <2>2, FS_Subset
<1>4. ASSUME NEW i \in I PROVE WindowsAre(frames[i], L[i], m[i], MetricColumns)
  <2>1. PICK mi, lns : mi = m[i] /\ lns = L[i]
    OBVIOUS
  <2>2. \A n \in lns : DOMAIN mi[n] = MetricColumns /\ mi[n].line = n
    BY <1>1, <2>1, RunMetrics
  <2>3. \A n, o \in lns : mi[n] = mi[o] => n = o
    BY <2>2
  <2>4. WindowsAre(aggregate_over_windows({mi[n] : n \in lns}), lns, mi, MetricColumns)
    BY <1>2, <1>3, <2>1, <2>2, <2>3, WindowsOfLines
  <2> QED  BY <1>1, <2>1, <2>4
<1>5. IsFiniteSet(I)
  BY MiddlewaresFinite, FS_Subset
<1>6. IsFiniteSet(PairsOf(I, L))
  BY <1>3, <1>5, PairsFinite
<1>7. WindowsAre(aggregate_over_middlewares(frames), PairsOf(I, L), Joint(I, L, m), MetricColumns)
  BY <1>2, <1>3, <1>4, <1>5, MiddlewaresTogether
<1> QED
  BY <1>1, <1>4, <1>6, <1>7

\* The averages of a repetition are those over all its lines between warm-up
\* and cool-down.
LEMMA RepMetricsOfLines ==
    ASSUME NEW run, NEW k, RunGood(run, k)
    PROVE  WindowsAre(RepMetrics(run), PairsOf(DOMAIN Middlewares, WindowLines(run)),
                      Joint(DOMAIN Middlewares, WindowLines(run), MetricRows(run)), MetricColumns)
<1>1. PICK I, L : I = DOMAIN Middlewares /\ L = WindowLines(run)
  OBVIOUS
<1>2. PICK requests : requests = Requests(run, Middlewares)
  OBVIOUS
<1>3. DOMAIN requests = I
  BY <1>1, <1>2, TabulatedIs DEF Requests
<1>4. ASSUME NEW i \in I PROVE extract_metrics(requests[i]) = {MetricRows(run)[i][n] : n \in DOMAIN RowsOf(run, i)}
  <2>1. requests[i] = {LineRow(i, n, RowsOf(run, i)[n]) : n \in DOMAIN RowsOf(run, i)} /\ 1 \in DOMAIN RowsOf(run, i)
    BY <1>1, <1>2, RunRows
  <2> QED  BY <1>1, <2>1, ExtractedRows
<1>5. PICK metrics : metrics = Extracted(run, Middlewares)
  OBVIOUS
<1>6. DOMAIN metrics = I /\ \A i \in I : metrics[i] = extract_metrics(requests[i])
  BY <1>2, <1>3, <1>5 DEF Extracted
<1>7. PICK frames : frames = [i \in DOMAIN metrics |-> aggregate_over_windows(cut_requests(metrics[i], Warmup, Cooldown))]
  OBVIOUS
<1>8. ASSUME NEW i \in I PROVE frames[i] = aggregate_over_windows({MetricRows(run)[i][n] : n \in L[i]})
  <2>1. metrics[i] = {MetricRows(run)[i][n] : n \in DOMAIN RowsOf(run, i)}
    BY <1>4, <1>6
  <2>2. L[i] = {n \in DOMAIN RowsOf(run, i) : InWindow(i, RowsOf(run, i)[n])}
    BY <1>1 DEF WindowLines
  <2>3. cut_requests(metrics[i], Warmup, Cooldown) = {MetricRows(run)[i][n] : n \in L[i]}
    <3>1. PICK S, kept : S = DOMAIN RowsOf(run, i) /\ kept = L[i]
      OBVIOUS
    <3>2. S \in SUBSET DOMAIN RowsOf(run, i) /\ kept = {n \in S : InWindow(i, RowsOf(run, i)[n])} /\ i \in DOMAIN Middlewares
      BY <1>1, <2>2, <3>1
    <3>3. cut_requests({MetricRows(run)[i][n] : n \in S}, Warmup, Cooldown) = {MetricRows(run)[i][n] : n \in kept}
      BY <3>2, CutRows
    <3> QED  BY <1>1, <2>1, <3>1, <3>3
  <2> QED  BY <1>6, <1>7, <2>3
<1>9. RepMetrics(run) = aggregate_over_middlewares(frames)
  BY <1>5, <1>7, TabulatedIs DEF RepMetrics, MiddlewareMetrics
<1>10. \A i \in I : L[i] \in SUBSET DOMAIN RowsOf(run, i)
  BY <1>1 DEF WindowLines
<1>11. DOMAIN frames = I
  BY <1>6, <1>7
<1>12. WindowsAre(aggregate_over_middlewares(frames), PairsOf(I, L), Joint(I, L, MetricRows(run)), MetricColumns)
  <2>1. I \in SUBSET DOMAIN Middlewares
    BY <1>1
  <2> QED  BY <1>8, <1>10, <1>11, <2>1, FramesOfLines
<1> QED
  BY <1>1, <1>9, <1>12

\* Those of experiment 5 are the averages over the lines of GETs.
LEMMA GetMetricsOfLines ==
    ASSUME NEW run, NEW k, RunGood(run, k)
    PROVE  WindowsAre(MiddlewareMetrics(GetMetrics(Requests(run, Middlewares)), Warmup, Cooldown),
                      PairsOf(DOMAIN Middlewares, GetLines(run)),
                      Joint(DOMAIN Middlewares, GetLines(run), MetricRows(run)), MetricColumns)
<1>1. PICK I, L : I = DOMAIN Middlewares /\ L = GetLines(run)
  OBVIOUS
<1>2. PICK requests : requests = Requests(run, Middlewares)
  OBVIOUS
<1>3. DOMAIN requests = I
  BY <1>1, <1>2, TabulatedIs DEF Requests
<1>4. PICK G : G = [i \in I |-> {n \in DOMAIN RowsOf(run, i) : RowsOf(run, i)[n].requestType # "SET"}]
  OBVIOUS
<1>5. ASSUME NEW i \in I PROVE extract_metrics(Gets(requests[i])) = {MetricRows(run)[i][n] : n \in G[i]}
  <2>1. PICK rows : rows = RowsOf(run, i)
    OBVIOUS
  <2>2. /\ requests[i] = {LineRow(i, n, rows[n]) : n \in DOMAIN rows}
        /\ 1 \in DOMAIN rows /\ rows[1].requestType = "GET"
        /\ \A n \in DOMAIN rows : rows[n] \in RequestRows(Middlewares[i])
    BY <1>1, <1>2, <2>1, RunRows
  <2>3. \A n \in DOMAIN rows : LineRow(i, n, rows[n]).requestType = rows[n].requestType
    <3>1. SUFFICES ASSUME NEW n \in DOMAIN rows PROVE LineRow(i, n, rows[n]).requestType = rows[n].requestType
      OBVIOUS
    <3>2. "requestType" \in DOMAIN rows[n] /\ "line" \notin DOMAIN rows[n]
      BY <2>2, RequestRowFacts
    <3> QED  BY <3>2, LineRowFacts
  <2>4. G[i] = {n \in DOMAIN rows : rows[n].requestType # "SET"}
    BY <1>4, <2>1
  <2>5. Gets(requests[i]) = {LineRow(i, n, rows[n]) : n \in G[i]}
    BY <2>2, <2>3, <2>4 DEF Gets
  <2>6. G[i] \in SUBSET DOMAIN rows /\ 1 \in G[i]
    BY <2>2, <2>4
  <2> QED  BY <1>1, <2>1, <2>5, <2>6, ExtractedRows
<1>6. PICK metrics : metrics = GetMetrics(requests)
  OBVIOUS
<1>7. DOMAIN metrics = I /\ \A i \in I : metrics[i] = {MetricRows(run)[i][n] : n \in G[i]}
  BY <1>3, <1>5, <1>6 DEF GetMetrics
<1>8. PICK frames : frames = [i \in DOMAIN metrics |-> aggregate_over_windows(cut_requests(metrics[i], Warmup, Cooldown))]
  OBVIOUS
<1>9. ASSUME NEW i \in I PROVE frames[i] = aggregate_over_windows({MetricRows(run)[i][n] : n \in L[i]})
  <2>1. L[i] = {n \in G[i] : InWindow(i, RowsOf(run, i)[n])} /\ G[i] \in SUBSET DOMAIN RowsOf(run, i)
    BY <1>1, <1>4 DEF GetLines
  <2>2. cut_requests(metrics[i], Warmup, Cooldown) = {MetricRows(run)[i][n] : n \in L[i]}
    <3>1. PICK S, kept : S = G[i] /\ kept = L[i]
      OBVIOUS
    <3>2. S \in SUBSET DOMAIN RowsOf(run, i) /\ kept = {n \in S : InWindow(i, RowsOf(run, i)[n])} /\ i \in DOMAIN Middlewares
      BY <1>1, <2>1, <3>1
    <3>3. cut_requests({MetricRows(run)[i][n] : n \in S}, Warmup, Cooldown) = {MetricRows(run)[i][n] : n \in kept}
      BY <3>2, CutRows
    <3> QED  BY <1>1, <1>7, <3>1, <3>3
  <2> QED  BY <1>7, <1>8, <2>2
<1>10. MiddlewareMetrics(metrics, Warmup, Cooldown) = aggregate_over_middlewares(frames)
  BY <1>8, TabulatedIs DEF MiddlewareMetrics
<1>11. \A i \in I : L[i] \in SUBSET DOMAIN RowsOf(run, i)
  BY <1>1 DEF GetLines
<1>12. DOMAIN frames = I
  BY <1>7, <1>8
<1>13. WindowsAre(aggregate_over_middlewares(frames), PairsOf(I, L), Joint(I, L, MetricRows(run)), MetricColumns)
  <2>1. I \in SUBSET DOMAIN Middlewares
    BY <1>1
  <2> QED  BY <1>9, <1>11, <1>12, <2>1, FramesOfLines
<1> QED
  BY <1>1, <1>2, <1>6, <1>10, <1>13

-----------------------------------------------------------------------------
(* The averages are right.                                                 *)

\* The throughputs of all seconds count every line once.
LEMMA EveryLineCounts ==
    ASSUME NEW L, IsFiniteSet(L), NEW m, NEW D, NEW windows, WindowsAre(windows, L, m, D)
    PROVE  Total([second \in DOMAIN windows |-> windows[second].throughput_mw]) = ThroughputOf(L)
<1>1. PICK S : S = SecondsIn(L, m)
  OBVIOUS
<1>2. PICK key : key = [l \in L |-> Second(m[l])]
  OBVIOUS
<1>3. (\A l \in L : key[l] \in S) /\ \A second \in S : \E l \in L : key[l] = second
  BY <1>1, <1>2 DEF SecondsIn
<1>4. IsFiniteSet(S)
  BY <1>3, FiniteImage
<1>5. PICK c \in Int : c = log_interval
  BY RequestLogsAssumption
<1>8. PICK n : n = [second \in S |-> Cardinality(InSecond(L, m, second)) * c]
  OBVIOUS
<1>9. ASSUME NEW second \in S
      PROVE  n[second] = Cardinality(PartOf(L, key, second)) * c
  <2>1. InSecond(L, m, second) = PartOf(L, key, second)
    BY <1>2 DEF InSecond, PartOf
  <2> QED  BY <1>8, <2>1
<1>10. \A l \in L : key[l] \in S
  BY <1>3
<1>11. SumFunctionOnSet(n, S) = Cardinality(L) * c /\ IntegersOn(n, S)
  BY <1>4, <1>9, <1>10, CountedParts
<1>12. PICK counts : counts = [second \in DOMAIN windows |-> windows[second].throughput_mw]
  OBVIOUS
<1>13. DOMAIN counts = S /\ \A second \in S : counts[second] = Whole(n[second])
  BY <1>1, <1>5, <1>8, <1>12 DEF WindowsAre, WindowIs, ThroughputOf
<1>15. Total(counts) = Whole(SumFunctionOnSet(n, S))
  BY <1>4, <1>11, <1>13, TotalOfWhole
<1> QED
  BY <1>5, <1>11, <1>12, <1>15 DEF ThroughputOf

\* The runs of which the properties speak.
LEMMA RunsAreGood ==
    ASSUME LogsGood, NEW run \in Runs
    PROVE  RunGood(run, lines)
<1>1. PICK r \in Range(plan) : run = inputdir[r[1]][r[2]]
  BY DEF Runs
<1> QED
  BY <1>1 DEF LogsGood

\* A place is a line of a log; it counts when its request is between warm-up
\* and cool-down.
LEMMA KeptPlacesAreLines ==
    ASSUME NEW run
    PROVE  /\ KeptPlaces(run) = PairsOf(DOMAIN Middlewares, WindowLines(run))
           /\ {p \in KeptPlaces(run) : RowAt(run, p).requestType # "SET"} = PairsOf(DOMAIN Middlewares, GetLines(run))
<1>1. PICK I, L, G : I = DOMAIN Middlewares /\ L = WindowLines(run) /\ G = GetLines(run)
  OBVIOUS
<1>2. Places(run) = UNION {{<<i, n>> : n \in DOMAIN RowsOf(run, i)} : i \in I}
  BY <1>1 DEF Places, RowsOf
<1>3. ASSUME NEW i \in I, NEW n
      PROVE  /\ n \in L[i] <=> n \in DOMAIN RowsOf(run, i) /\ InWindow(i, RowsOf(run, i)[n])
             /\ n \in G[i] <=> n \in L[i] /\ RowsOf(run, i)[n].requestType # "SET"
  <2>1. L[i] = {o \in DOMAIN RowsOf(run, i) : InWindow(i, RowsOf(run, i)[o])}
    BY <1>1 DEF WindowLines
  <2>2. G[i] = {o \in DOMAIN RowsOf(run, i) : RowsOf(run, i)[o].requestType # "SET" /\ InWindow(i, RowsOf(run, i)[o])}
    BY <1>1 DEF GetLines
  <2> QED  BY <2>1, <2>2
<1>4. \A i, n : RowAt(run, <<i, n>>) = RowsOf(run, i)[n]
  BY DEF RowAt, RowsOf
<1>5. ASSUME NEW p \in KeptPlaces(run)
      PROVE  p \in PairsOf(I, L) /\ (RowAt(run, p).requestType # "SET" => p \in PairsOf(I, G))
  <2>1. p \in Places(run) /\ InWindow(p[1], RowAt(run, p))
    BY DEF KeptPlaces
  <2>2. PICK i \in I : \E n \in DOMAIN RowsOf(run, i) : p = <<i, n>>
    BY <1>2, <2>1
  <2>3. PICK n \in DOMAIN RowsOf(run, i) : p = <<i, n>>
    BY <2>2
  <2>4. InWindow(i, RowsOf(run, i)[n]) /\ RowAt(run, p) = RowsOf(run, i)[n]
    BY <1>4, <2>1, <2>3
  <2>5. n \in L[i] /\ (RowAt(run, p).requestType # "SET" => n \in G[i])
    BY <1>3, <2>4
  <2> QED  BY <2>3, <2>5 DEF PairsOf
<1>6. ASSUME NEW p \in PairsOf(I, L) PROVE p \in KeptPlaces(run)
  <2>1. PICK i \in I : \E n \in L[i] : p = <<i, n>>
    BY DEF PairsOf
  <2>2. PICK n \in L[i] : p = <<i, n>>
    BY <2>1
  <2>3. n \in DOMAIN RowsOf(run, i) /\ InWindow(i, RowsOf(run, i)[n])
    BY <1>3
  <2>4. p \in Places(run)
    BY <1>2, <2>2, <2>3
  <2>5. InWindow(p[1], RowAt(run, p))
    BY <1>4, <2>2, <2>3
  <2> QED  BY <2>4, <2>5 DEF KeptPlaces
<1>7. ASSUME NEW p \in PairsOf(I, G) PROVE p \in PairsOf(I, L) /\ RowAt(run, p).requestType # "SET"
  <2>1. PICK i \in I : \E n \in G[i] : p = <<i, n>>
    BY DEF PairsOf
  <2>2. PICK n \in G[i] : p = <<i, n>>
    BY <2>1
  <2>3. n \in L[i] /\ RowsOf(run, i)[n].requestType # "SET"
    BY <1>3
  <2> QED  BY <1>4, <2>2, <2>3 DEF PairsOf
<1> QED
  BY <1>1, <1>5, <1>6, <1>7

\* The requests that are counted in experiment 3 and, the GETs only, in experiment 5.
LEMMA EveryRequestCountsOnce ==
    LogsGood => EachRequestCountsOnce
<1>1. SUFFICES ASSUME LogsGood, NEW run \in Runs
               PROVE  LET metrics == RepMetrics(run)
                          gets == MiddlewareMetrics(GetMetrics(Requests(run, Middlewares)), Warmup, Cooldown)
                          isGet(place) == RowAt(run, place).requestType \in RequestTypes \ {"SET"}
                          counted(m) == Total([second \in DOMAIN m |-> m[second].throughput_mw])
                      IN /\ counted(metrics) = Whole(Cardinality(KeptPlaces(run)) * log_interval)
                         /\ counted(gets) = Whole(Cardinality({p \in KeptPlaces(run) : isGet(p)}) * log_interval)
  BY DEF EachRequestCountsOnce
<1>2. RunGood(run, lines)
  BY <1>1, RunsAreGood
<1> DEFINE counted(m) == Total([second \in DOMAIN m |-> m[second].throughput_mw])
<1>3. PICK I, L, G : I = DOMAIN Middlewares /\ L = WindowLines(run) /\ G = GetLines(run)
  OBVIOUS
<1>4. PICK metrics, gets : /\ metrics = RepMetrics(run)
                           /\ gets = MiddlewareMetrics(GetMetrics(Requests(run, Middlewares)), Warmup, Cooldown)
  OBVIOUS
<1>6. ASSUME NEW i \in I
      PROVE  IsFiniteSet(L[i]) /\ IsFiniteSet(G[i])
  <2>1. L[i] \in SUBSET DOMAIN RowsOf(run, i) /\ G[i] \in SUBSET DOMAIN RowsOf(run, i)
    BY <1>3 DEF WindowLines, GetLines
  <2>2. IsFiniteSet(DOMAIN RowsOf(run, i))
    BY <1>2, <1>3, RunRows
  <2> QED  BY <2>1, <2>2, FS_Subset
<1>7. IsFiniteSet(PairsOf(I, L)) /\ IsFiniteSet(PairsOf(I, G))
  <2>1. IsFiniteSet(I)
    BY <1>3, MiddlewaresFinite
  <2>2. \A i \in I : IsFiniteSet(L[i])
    BY <1>6
  <2>3. \A i \in I : IsFiniteSet(G[i])
    BY <1>6
  <2> QED  BY <2>1, <2>2, <2>3, PairsFinite
<1>8. counted(metrics) = ThroughputOf(PairsOf(I, L))
  <2>1. PICK P, m : P = PairsOf(I, L) /\ m = Joint(I, L, MetricRows(run))
    OBVIOUS
  <2>2. WindowsAre(metrics, P, m, MetricColumns)
    BY <1>2, <1>3, <1>4, <2>1, RepMetricsOfLines
  <2> QED  BY <1>7, <2>1, <2>2, EveryLineCounts
<1>9. counted(gets) = ThroughputOf(PairsOf(I, G))
  <2>1. PICK P, m : P = PairsOf(I, G) /\ m = Joint(I, G, MetricRows(run))
    OBVIOUS
  <2>2. WindowsAre(gets, P, m, MetricColumns)
    BY <1>2, <1>3, <1>4, <2>1, GetMetricsOfLines
  <2> QED  BY <1>7, <2>1, <2>2, EveryLineCounts
<1>10. KeptPlaces(run) = PairsOf(I, L)
  BY <1>3, KeptPlacesAreLines
<1>11. {p \in KeptPlaces(run) : RowAt(run, p).requestType \in RequestTypes \ {"SET"}} = PairsOf(I, G)
  <2>1. \A p \in KeptPlaces(run) : RowAt(run, p).requestType \in RequestTypes
    <3>1. SUFFICES ASSUME NEW p \in KeptPlaces(run) PROVE RowAt(run, p).requestType \in RequestTypes
      OBVIOUS
    <3>2. PICK i \in I : \E n \in L[i] : p = <<i, n>>
      BY <1>10 DEF PairsOf
    <3>3. PICK n \in L[i] : p = <<i, n>>
      BY <3>2
    <3>4. n \in DOMAIN RowsOf(run, i) /\ RowAt(run, p) = RowsOf(run, i)[n]
      BY <1>3, <3>3 DEF WindowLines, RowAt, RowsOf
    <3>5. RowsOf(run, i)[n] \in RequestRows(Middlewares[i])
      BY <1>2, <1>3, <3>4, RunRows
    <3> QED  BY <3>4, <3>5, RequestRowFacts
  <2>2. {p \in KeptPlaces(run) : RowAt(run, p).requestType # "SET"} = PairsOf(I, G)
    BY <1>3, KeptPlacesAreLines
  <2> QED  BY <2>1, <2>2
<1> HIDE DEF counted
<1>12. /\ counted(metrics) = Whole(Cardinality(KeptPlaces(run)) * log_interval)
       /\ counted(gets) = Whole(Cardinality({p \in KeptPlaces(run) :
                                RowAt(run, p).requestType \in RequestTypes \ {"SET"}}) * log_interval)
  BY <1>8, <1>9, <1>10, <1>11 DEF ThroughputOf
<1> QED
  BY <1>4, <1>12 DEF counted

\* A second of the places between warm-up and cool-down.
LEMMA PlacesOfSecond ==
    ASSUME NEW run, NEW k, RunGood(run, k), NEW P, P = KeptPlaces(run),
           NEW m, m = Joint(DOMAIN Middlewares, WindowLines(run), MetricRows(run))
    PROVE  \A p \in P :
            /\ Second(m[p]) = SecondAt(run, p)
            /\ m[p].responseTime_ms = RowAt(run, p).completedTime - RowAt(run, p).firstReadTime
            /\ m[p].queueTime_ms = RowAt(run, p).dequeueTime - RowAt(run, p).enqueueTime
            /\ m[p].queueLength = RowAt(run, p).queueLength
            /\ m[p].responseTime_ms \in Int /\ m[p].queueTime_ms \in Int /\ m[p].queueLength \in Int
<1>1. PICK I, L : I = DOMAIN Middlewares /\ L = WindowLines(run)
  OBVIOUS
<1>2. P = PairsOf(I, L)
  BY <1>1, KeptPlacesAreLines
<1> SUFFICES ASSUME NEW p \in P
             PROVE  /\ Second(m[p]) = SecondAt(run, p)
                    /\ m[p].responseTime_ms = RowAt(run, p).completedTime - RowAt(run, p).firstReadTime
                    /\ m[p].queueTime_ms = RowAt(run, p).dequeueTime - RowAt(run, p).enqueueTime
                    /\ m[p].queueLength = RowAt(run, p).queueLength
                    /\ m[p].responseTime_ms \in Int /\ m[p].queueTime_ms \in Int /\ m[p].queueLength \in Int
  OBVIOUS
<1>3. PICK i \in I : \E n \in L[i] : p = <<i, n>>
  BY <1>2 DEF PairsOf
<1>4. PICK n \in L[i] : p = <<i, n>>
  BY <1>3
<1>5. PICK row : row = RowsOf(run, i)[n]
  OBVIOUS
<1>6. PICK metric : metric = MetricRows(run)[i][n]
  OBVIOUS
<1>7. RowAt(run, p) = row /\ p[1] = i
  BY <1>4, <1>5 DEF RowAt, RowsOf
<1>8. m[p] = metric
  BY <1>1, <1>2, <1>4, <1>6 DEF Joint
<1>9. n \in DOMAIN RowsOf(run, i)
  BY <1>1 DEF WindowLines
<1>10. /\ metric.timestep = TimestepOf(i, row)
       /\ metric.queueLength = row.queueLength /\ metric.queueLength \in Int
       /\ metric.queueTime_ms = row.dequeueTime - row.enqueueTime /\ metric.queueTime_ms \in Int
       /\ metric.responseTime_ms = row.completedTime - row.firstReadTime /\ metric.responseTime_ms \in Int
  BY <1>1, <1>5, <1>6, <1>9, RunMetrics
<1>11. Second(m[p]) = SecondAt(run, p)
  BY <1>7, <1>8, <1>10 DEF Second, SecondAt
<1> QED
  BY <1>7, <1>8, <1>10, <1>11

\* The averages of a second are taken over its requests, of all middlewares.
LEMMA MetricsArePooled ==
    LogsGood => PooledMeans
<1>1. SUFFICES ASSUME LogsGood, NEW run \in Runs, NEW second \in DOMAIN RepMetrics(run)
               PROVE  LET metrics == RepMetrics(run)[second]
                          kept == KeptIn(run, second)
                          pooled(values) == Ratio(SumFunction(values), Cardinality(kept))
                      IN /\ metrics.responseTime_ms =
                              pooled([p \in kept |-> RowAt(run, p).completedTime - RowAt(run, p).firstReadTime])
                         /\ metrics.queueTime_ms =
                              pooled([p \in kept |-> RowAt(run, p).dequeueTime - RowAt(run, p).enqueueTime])
                         /\ metrics.queueLength = pooled([p \in kept |-> RowAt(run, p).queueLength])
  BY DEF PooledMeans
<1>2. RunGood(run, lines)
  BY <1>1, RunsAreGood
<1>3. PICK P, m : P = KeptPlaces(run) /\ m = Joint(DOMAIN Middlewares, WindowLines(run), MetricRows(run))
  OBVIOUS
<1>4. WindowsAre(RepMetrics(run), P, m, MetricColumns)
  BY <1>2, <1>3, RepMetricsOfLines, KeptPlacesAreLines
<1>5. \A p \in P :
        /\ Second(m[p]) = SecondAt(run, p)
        /\ m[p].responseTime_ms = RowAt(run, p).completedTime - RowAt(run, p).firstReadTime
        /\ m[p].queueTime_ms = RowAt(run, p).dequeueTime - RowAt(run, p).enqueueTime
        /\ m[p].queueLength = RowAt(run, p).queueLength
        /\ m[p].responseTime_ms \in Int /\ m[p].queueTime_ms \in Int /\ m[p].queueLength \in Int
  BY <1>2, <1>3, PlacesOfSecond
<1>6. PICK kept : kept = KeptIn(run, second)
  OBVIOUS
<1>7. InSecond(P, m, second) = kept /\ kept \in SUBSET P
  BY <1>3, <1>5, <1>6 DEF InSecond, KeptIn
<1>8. PICK metrics : metrics = RepMetrics(run)[second]
  OBVIOUS
<1>9. WindowIs(metrics, kept, m, MetricColumns)
  BY <1>4, <1>7, <1>8 DEF WindowsAre
<1>10. {"responseTime_ms", "queueTime_ms", "queueLength"} \subseteq MetricColumns \ Labels
  BY DEF MetricColumns, Labels
<1>11. AverageIs(metrics["responseTime_ms"], kept, m, "responseTime_ms")
  BY <1>9, <1>10 DEF WindowIs
<1>12. AverageIs(metrics["queueTime_ms"], kept, m, "queueTime_ms")
  BY <1>9, <1>10 DEF WindowIs
<1>13. AverageIs(metrics["queueLength"], kept, m, "queueLength")
  BY <1>9, <1>10 DEF WindowIs
<1>14. ASSUME NEW f, DOMAIN f = kept PROVE SumFunction(f) = SumFunctionOnSet(f, kept)
  BY <1>14 DEF SumFunction
<1>15. metrics.responseTime_ms =
          Ratio(SumFunction([p \in kept |-> RowAt(run, p).completedTime - RowAt(run, p).firstReadTime]), Cardinality(kept))
  <2>1. PICK f : f = [p \in kept |-> RowAt(run, p).completedTime - RowAt(run, p).firstReadTime]
    OBVIOUS
  <2>2. DOMAIN f = kept /\ \A p \in kept : f[p] = m[p]["responseTime_ms"]
    BY <1>5, <1>7, <2>1
  <2>3. IntegersOn(f, kept)
    BY <1>5, <1>7, <2>2 DEF IntegersOn
  <2>4. metrics["responseTime_ms"] = Ratio(SumFunctionOnSet(f, kept), Cardinality(kept))
    BY <1>11, <2>2, <2>3 DEF AverageIs
  <2> QED  BY <1>14, <2>1, <2>2, <2>4
<1>16. metrics.queueTime_ms =
          Ratio(SumFunction([p \in kept |-> RowAt(run, p).dequeueTime - RowAt(run, p).enqueueTime]), Cardinality(kept))
  <2>1. PICK f : f = [p \in kept |-> RowAt(run, p).dequeueTime - RowAt(run, p).enqueueTime]
    OBVIOUS
  <2>2. DOMAIN f = kept /\ \A p \in kept : f[p] = m[p]["queueTime_ms"]
    BY <1>5, <1>7, <2>1
  <2>3. IntegersOn(f, kept)
    BY <1>5, <1>7, <2>2 DEF IntegersOn
  <2>4. metrics["queueTime_ms"] = Ratio(SumFunctionOnSet(f, kept), Cardinality(kept))
    BY <1>12, <2>2, <2>3 DEF AverageIs
  <2> QED  BY <1>14, <2>1, <2>2, <2>4
<1>17. metrics.queueLength = Ratio(SumFunction([p \in kept |-> RowAt(run, p).queueLength]), Cardinality(kept))
  <2>1. PICK f : f = [p \in kept |-> RowAt(run, p).queueLength]
    OBVIOUS
  <2>2. DOMAIN f = kept /\ \A p \in kept : f[p] = m[p]["queueLength"]
    BY <1>5, <1>7, <2>1
  <2>3. IntegersOn(f, kept)
    BY <1>5, <1>7, <2>2 DEF IntegersOn
  <2>4. metrics["queueLength"] = Ratio(SumFunctionOnSet(f, kept), Cardinality(kept))
    BY <1>13, <2>2, <2>3 DEF AverageIs
  <2> QED  BY <1>14, <2>1, <2>2, <2>4
<1> QED
  BY <1>6, <1>8, <1>15, <1>16, <1>17

\* Between the first line that is kept and a line that is kept and begins in a
\* later second, every line of the first one's second is kept.
LEMMA WholeSecond ==
    ASSUME NEW T \in Nat \ {0}, NEW w \in Nat, NEW k \in Nat, NEW a \in Nat, NEW b \in Nat, NEW c \in Nat,
           w * T <= a, b <= k * T, c \div T = a \div T, c \div T < b \div T
    PROVE  w * T <= c /\ c <= k * T
<1>1. PICK q \in Nat, r \in Nat : q = a \div T /\ r = a % T
  BY RemainderFacts
<1>2. PICK s \in Nat : s = c % T
  BY RemainderFacts
<1>3. PICK p \in Nat, o \in Nat : p = b \div T /\ o = b % T
  BY RemainderFacts
<1>4. a = T * q + r /\ r < T
  BY <1>1, RemainderFacts
<1>5. c = T * q + s /\ s < T
  BY <1>1, <1>2, RemainderFacts
<1>6. b = T * p + o /\ o < T
  BY <1>3, RemainderFacts
<1>7. w <= q
  <2>1. SUFFICES ASSUME q + 1 <= w PROVE FALSE
    OBVIOUS
  <2>2. PICK d \in Nat : w = q + 1 + d
    <3>1. w - (q + 1) \in Nat /\ w = q + 1 + (w - (q + 1))
      BY <2>1
    <3> QED  BY <3>1
  <2>3. w * T = T * q + T + d * T
    BY <2>2
  <2>4. d * T \in Nat /\ T * q \in Nat
    OBVIOUS
  <2>5. T * q + T + d * T <= T * q + r
    BY <1>4, <2>3
  <2> QED  BY <1>4, <2>4, <2>5
<1>8. w * T <= T * q
  <2>1. PICK d \in Nat : q = w + d
    <3>1. q - w \in Nat /\ q = w + (q - w)
      BY <1>7
    <3> QED  BY <3>1
  <2>2. T * q = w * T + d * T
    BY <2>1
  <2>3. d * T \in Nat /\ w * T \in Nat
    OBVIOUS
  <2> QED  BY <2>2, <2>3
<1>9. T * q + T <= T * p
  <2>1. q + 1 <= p
    BY <1>1, <1>3
  <2>2. PICK d \in Nat : p = q + 1 + d
    <3>1. p - (q + 1) \in Nat /\ p = q + 1 + (p - (q + 1))
      BY <2>1
    <3> QED  BY <3>1
  <2>3. T * p = T * q + T + d * T
    BY <2>2
  <2>4. d * T \in Nat /\ T * q \in Nat
    OBVIOUS
  <2> QED  BY <2>3, <2>4
<1>10. PICK u \in Int, v \in Int, x \in Int, y \in Int : u = w * T /\ v = T * q /\ x = T * p /\ y = k * T
  OBVIOUS
<1> QED
  BY <1>4, <1>5, <1>6, <1>8, <1>9, <1>10

\* Of the seconds of one log, the later ones left out are those of fewer lines.
LEMMA FewerSeconds ==
    ASSUME NEW windows, NEW L, NEW m, NEW D, WindowsAre(windows, L, m, D), NEW S \in SUBSET DOMAIN windows,
           NEW kept, kept = {l \in L : Second(m[l]) \in S}
    PROVE  WindowsAre(Restrict(windows, S), kept, m, D)
<1>1. PICK fewer : fewer = Restrict(windows, S)
  OBVIOUS
<1>2. DOMAIN fewer = S /\ \A second \in S : fewer[second] = windows[second]
  BY <1>1 DEF Restrict
<1>3. SecondsIn(kept, m) = S
  BY DEF WindowsAre, SecondsIn
<1>4. \A second \in S : InSecond(kept, m, second) = InSecond(L, m, second)
  BY DEF InSecond
<1>5. \A second \in S : WindowIs(windows[second], InSecond(L, m, second), m, D)
  BY DEF WindowsAre
<1> QED
  BY <1>1, <1>2, <1>3, <1>4, <1>5 DEF WindowsAre

\* The metrics of one middleware of experiment 4 count all lines of a second.
LEMMA MetricsOfWholeSeconds ==
    ASSUME NEW run, NEW k, RunGood(run, k), NEW i \in DOMAIN Middlewares,
           NEW metrics, metrics = MiddlewareMetrics_4(<<Requests(run, Middlewares)[i]>>, Warmup, Cooldown),
           NEW second \in DOMAIN metrics,
           NEW logged, logged = {n \in DOMAIN RowsOf(run, i) : SecondAt(run, <<i, n>>) = second}
    PROVE  metrics[second].throughput_mw = ThroughputOf(logged)
<1>1. PICK all, m, requests : all = DOMAIN RowsOf(run, i) /\ m = MetricRows(run)[i]
                              /\ requests = Requests(run, Middlewares)[i]
  OBVIOUS
<1>2. extract_metrics(requests) = {m[n] : n \in all}
  <2>1. 1 \in all /\ requests = {LineRow(i, n, RowsOf(run, i)[n]) : n \in all}
    BY <1>1, RunRows
  <2>2. all \in SUBSET DOMAIN RowsOf(run, i)
    BY <1>1
  <2>3. extract_metrics({LineRow(i, n, RowsOf(run, i)[n]) : n \in all}) = {MetricRows(run)[i][n] : n \in all}
    BY <2>1, <2>2, ExtractedRows
  <2> QED  BY <1>1, <2>1, <2>3
<1>3. PICK L : L = {n \in all : InWindow(i, RowsOf(run, i)[n])}
  OBVIOUS
<1>4. cut_requests(extract_metrics(requests), Warmup, Cooldown) = {m[n] : n \in L}
  <2>1. all \in SUBSET DOMAIN RowsOf(run, i)
    BY <1>1
  <2>2. cut_requests({MetricRows(run)[i][n] : n \in all}, Warmup, Cooldown) = {MetricRows(run)[i][n] : n \in L}
    BY <1>3, <2>1, CutRows
  <2> QED  BY <1>1, <1>2, <2>2
<1>5. \A n \in all : /\ DOMAIN m[n] = MetricColumns /\ m[n].line = n
                     /\ m[n].timestep = TimestepOf(i, RowsOf(run, i)[n]) /\ m[n].timestep \in Nat
  BY <1>1, RunMetrics
<1>6. PICK windows : windows = aggregate_over_windows({m[n] : n \in L})
  OBVIOUS
<1>7. "throughput_mw" \notin MetricColumns
  BY DEF MetricColumns
<1>8. IsFiniteSet(L)
  <2>1. IsFiniteSet(all)
    BY <1>1, RunRows
  <2> QED  BY <1>3, <2>1, FS_Subset
<1>9. WindowsAre(windows, L, m, MetricColumns)
  <2>1. \A n \in L : DOMAIN m[n] = MetricColumns /\ m[n].line = n
    BY <1>3, <1>5
  <2>2. \A n, o \in L : m[n] = m[o] => n = o
    BY <2>1
  <2> QED  BY <1>6, <1>7, <1>8, <2>1, <2>2, WindowsOfLines
<1>10. PICK S : S = {s \in DOMAIN windows : \E later \in DOMAIN windows : s < later}
  OBVIOUS
<1>11. PICK whole : whole = WithoutLast(windows)
  OBVIOUS
<1>12. PICK kept : kept = {n \in L : Second(m[n]) \in S}
  OBVIOUS
<1>13. WindowsAre(whole, kept, m, MetricColumns)
  <2>1. whole = Restrict(windows, S) /\ S \in SUBSET DOMAIN windows
    BY <1>10, <1>11 DEF WithoutLast
  <2>2. WindowsAre(Restrict(windows, S), kept, m, MetricColumns)
    BY <1>9, <1>12, <2>1, FewerSeconds
  <2> QED  BY <2>1, <2>2
<1>14. PICK frames : frames = [j \in {1} |-> whole]
  OBVIOUS
<1>15. metrics = aggregate_over_middlewares(frames)
  <2>1. PICK list : list = <<requests>>
    OBVIOUS
  <2>2. DOMAIN list = {1} /\ list[1] = requests
    BY <2>1
  <2>3. [j \in DOMAIN list |->
            WithoutLast(aggregate_over_windows(cut_requests(extract_metrics(list[j]), Warmup, Cooldown)))] = frames
    BY <1>4, <1>6, <1>11, <1>14, <2>2
  <2>4. MiddlewareMetrics_4(list, Warmup, Cooldown) = aggregate_over_middlewares(frames)
    BY <2>3, TabulatedIs DEF MiddlewareMetrics_4
  <2> QED  BY <1>1, <2>1, <2>4
<1>16. PICK I, N, M : I = {1} /\ N = [j \in {1} |-> kept] /\ M = [j \in {1} |-> m]
  OBVIOUS
<1>17. PICK P, J : P = PairsOf(I, N) /\ J = Joint(I, N, M)
  OBVIOUS
<1>18. WindowsAre(metrics, P, J, MetricColumns)
  <2>1. IsFiniteSet(I)
    BY <1>16, FS_Singleton
  <2>2. IsFiniteSet(kept)
    BY <1>8, <1>12, FS_Subset
  <2>3. \A j \in I : IsFiniteSet(N[j]) /\ WindowsAre(frames[j], N[j], M[j], MetricColumns)
    BY <1>13, <1>14, <1>16, <2>2
  <2>4. DOMAIN frames = I
    BY <1>14, <1>16
  <2> QED  BY <1>7, <1>15, <1>17, <2>1, <2>3, <2>4, MiddlewaresTogether
<1>19. PICK rows : rows = InSecond(P, J, second)
  OBVIOUS
<1>20. second \in SecondsIn(P, J) /\ metrics[second].throughput_mw = ThroughputOf(rows)
  BY <1>18, <1>19 DEF WindowsAre, WindowIs
<1>21. P = {<<1, n>> : n \in kept} /\ \A n \in kept : J[<<1, n>>] = m[n]
  BY <1>16, <1>17 DEF PairsOf, Joint
<1>22. second \in S
  BY <1>12, <1>20, <1>21 DEF SecondsIn
<1>23. \A n \in all : Second(m[n]) = SecondAt(run, <<i, n>>)
  BY <1>1, <1>5 DEF Second, SecondAt, RowAt, RowsOf
<1>24. ASSUME NEW n \in all, SecondAt(run, <<i, n>>) = second
       PROVE  n \in kept
  <2>1. PICK first \in L : Second(m[first]) = second
    BY <1>9, <1>10, <1>22 DEF WindowsAre, SecondsIn
  <2>2. PICK later \in L : second < Second(m[later])
    BY <1>9, <1>10, <1>22 DEF WindowsAre, SecondsIn
  <2>3. PICK T \in Nat \ {0}, w \in Nat, c \in Nat : T = TicksPerSecond /\ w = Warmup /\ c = Cooldown
    BY RequestLogsAssumption, ChartAssumption
  <2>4. PICK a \in Nat, b \in Nat, t \in Nat :
            a = m[first].timestep /\ b = m[later].timestep /\ t = m[n].timestep
    BY <1>3, <1>5
  <2>5. w * T \in Int /\ c * T \in Int
    OBVIOUS
  <2>6. a \in (w * T)..(c * T) /\ b \in (w * T)..(c * T)
    BY <1>3, <1>5, <2>3, <2>4 DEF InWindow
  <2>7. t \div T = a \div T /\ t \div T < b \div T
    BY <1>23, <1>24, <2>1, <2>2, <2>3, <2>4 DEF Second
  <2>8. w * T <= a /\ b <= c * T
    BY <2>5, <2>6
  <2>9. w * T <= t /\ t <= c * T
    BY <2>7, <2>8, WholeSecond
  <2>10. InWindow(i, RowsOf(run, i)[n])
    BY <1>5, <2>3, <2>4, <2>5, <2>9 DEF InWindow
  <2> QED  BY <1>3, <1>12, <1>22, <1>23, <1>24, <2>10
<1>25. PICK b : b = [n \in logged |-> <<1, n>>]
  OBVIOUS
<1>26. \A n \in logged : n \in kept /\ Second(m[n]) = second
  BY <1>1, <1>23, <1>24
<1>27. Enumerates(b, logged, rows)
  <2>1. \A n \in logged : b[n] \in rows
    BY <1>19, <1>21, <1>25, <1>26 DEF InSecond
  <2>2. \A p \in rows : \E n \in logged : b[n] = p
    <3>1. SUFFICES ASSUME NEW p \in rows PROVE \E n \in logged : b[n] = p
      OBVIOUS
    <3>2. PICK n \in kept : p = <<1, n>> /\ Second(m[n]) = second
      BY <1>19, <1>21 DEF InSecond
    <3>3. n \in all /\ SecondAt(run, <<i, n>>) = second
      BY <1>3, <1>12, <1>23, <3>2
    <3>4. n \in logged
      BY <1>1, <3>3
    <3> QED  BY <1>25, <3>2, <3>4
  <2>3. \A n, o \in logged : b[n] = b[o] => n = o
    BY <1>25
  <2> QED  BY <2>1, <2>2, <2>3 DEF Enumerates
<1>28. Cardinality(rows) = Cardinality(logged)
  <2>1. IsFiniteSet(logged)
    BY <1>8, <1>12, <1>26, FS_Subset
  <2> QED  BY <1>27, <2>1, SameSize
<1> QED
  BY <1>20, <1>28 DEF ThroughputOf

\* Experiment 4 counts whole seconds, every line of them.
LEMMA WholeSecondsCounted ==
    LogsGood => WholeSecondsOnly
<1>1. SUFFICES ASSUME LogsGood, NEW run \in Runs, NEW i \in DOMAIN Middlewares
               PROVE  LET metrics == MiddlewareMetrics_4(<<Requests(run, Middlewares)[i]>>, Warmup, Cooldown)
                          logged(second) ==
                            Cardinality({n \in DOMAIN run.middlewares[Middlewares[i]][1].thread :
                                SecondAt(run, <<i, n>>) = second})
                      IN \A second \in DOMAIN metrics :
                            metrics[second].throughput_mw = Whole(logged(second) * log_interval)
  BY DEF WholeSecondsOnly
<1>2. RunGood(run, lines)
  BY <1>1, RunsAreGood
<1>3. PICK metrics : metrics = MiddlewareMetrics_4(<<Requests(run, Middlewares)[i]>>, Warmup, Cooldown)
  OBVIOUS
<1>4. ASSUME NEW second \in DOMAIN metrics
      PROVE  metrics[second].throughput_mw =
                Whole(Cardinality({n \in DOMAIN run.middlewares[Middlewares[i]][1].thread :
                                    SecondAt(run, <<i, n>>) = second}) * log_interval)
  <2>1. PICK logged : logged = {n \in DOMAIN RowsOf(run, i) : SecondAt(run, <<i, n>>) = second}
    OBVIOUS
  <2>2. metrics[second].throughput_mw = ThroughputOf(logged)
    BY <1>2, <1>3, <2>1, MetricsOfWholeSeconds
  <2> QED  BY <2>1, <2>2 DEF ThroughputOf, RowsOf
<1> QED
  BY <1>3, <1>4

-----------------------------------------------------------------------------
(* The seconds of the clients.                                             *)

\* A line as it is read from the log of a client.
ClientLine(run, f, l) == run.clients[ClientLogs[f]][l] ++ [file |-> f, line |-> l]

\* The logs that have a second, and their lines of this second.
LogsWith(run, second) == {f \in DOMAIN ClientLogs : second + 1 \in DOMAIN run.clients[ClientLogs[f]]}

PrintedIn(run, second) ==
    {p \in Range(ClientLogs) \X (1..(Warmup + 1 + MaxLines)) :
        p[2] \in DOMAIN run.clients[p[1]] /\ run.clients[p[1]][p[2]].timestep = second}

ClientLogsAre(run) ==
    \A f \in DOMAIN ClientLogs : \E length \in Nat :
        /\ DOMAIN run.clients[ClientLogs[f]] = 1..length
        /\ length <= Warmup + 1 + MaxLines
        /\ \A l \in 1..length :
            /\ run.clients[ClientLogs[f]][l].timestep = l - 1
            /\ run.clients[ClientLogs[f]][l].throughput \in Nat
            /\ run.clients[ClientLogs[f]][l].responsetime \in Nat
            /\ ClientLine(run, f, l).file = f /\ ClientLine(run, f, l).line = l
            /\ ClientLine(run, f, l).timestep = l - 1
            /\ ClientLine(run, f, l).throughput = run.clients[ClientLogs[f]][l].throughput
            /\ ClientLine(run, f, l).responsetime = run.clients[ClientLogs[f]][l].responsetime

\* What the lines of a client have.
LEMMA ClientLines ==
    ASSUME NEW run, NEW k \in Nat, k <= MaxLines, RunGood(run, k)
    PROVE  ClientLogsAre(run)
<1>1. SUFFICES ASSUME NEW f \in DOMAIN ClientLogs
               PROVE  \E length \in Nat :
                        /\ DOMAIN run.clients[ClientLogs[f]] = 1..length
                        /\ length <= Warmup + 1 + MaxLines
                        /\ \A l \in 1..length :
                            /\ run.clients[ClientLogs[f]][l].timestep = l - 1
                            /\ run.clients[ClientLogs[f]][l].throughput \in Nat
                            /\ run.clients[ClientLogs[f]][l].responsetime \in Nat
                            /\ ClientLine(run, f, l).file = f /\ ClientLine(run, f, l).line = l
                            /\ ClientLine(run, f, l).timestep = l - 1
                            /\ ClientLine(run, f, l).throughput = run.clients[ClientLogs[f]][l].throughput
                            /\ ClientLine(run, f, l).responsetime = run.clients[ClientLogs[f]][l].responsetime
  BY DEF ClientLogsAre
<1>2. PICK log : log = run.clients[ClientLogs[f]]
  OBVIOUS
<1>3. ClientLogGood(log, k)
  <2>1. ClientLogs[f] \in Range(ClientLogs)
    BY DEF Range
  <2> QED  BY <1>2, <2>1 DEF RunGood
<1>4. PICK w \in Nat, most \in Nat : w = Warmup /\ most = MaxLines
  BY ChartAssumption, EvaluationAssumption
<1>5. PICK S : S = ClientRows
  OBVIOUS
<1>6. log \in Seq(S) /\ (\A i \in DOMAIN log : log[i].timestep = i - 1) /\ Len(log) <= w + 1 + k
  BY <1>3, <1>4, <1>5 DEF ClientLogGood
<1>7. PICK length \in Nat : length = Len(log)
  BY <1>6
<1>8. DOMAIN log = 1..length /\ \A l \in 1..length : log[l] \in S
  BY <1>6, <1>7
<1>9. length <= w + 1 + most
  BY <1>4, <1>6, <1>7
<1>10. ASSUME NEW l \in 1..length
       PROVE  /\ log[l].timestep = l - 1
              /\ log[l].throughput \in Nat /\ log[l].responsetime \in Nat
              /\ ClientLine(run, f, l).file = f /\ ClientLine(run, f, l).line = l
              /\ ClientLine(run, f, l).timestep = l - 1
              /\ ClientLine(run, f, l).throughput = log[l].throughput
              /\ ClientLine(run, f, l).responsetime = log[l].responsetime
  <2>1. PICK row : row = log[l]
    OBVIOUS
  <2>2. PICK n \in Nat, m \in Measurements : row = [timestep |-> n] ++ m
    <3>1. row \in ClientRows
      BY <1>5, <1>8, <2>1
    <3>2. PICK n \in Nat, m \in Measurements : row = ClientRow(n, m)
      BY <3>1 DEF ClientRows
    <3> QED  BY <3>2 DEF ClientRow
  <2>3. DOMAIN m = {"throughput", "responsetime"} /\ m.throughput \in Nat /\ m.responsetime \in Nat
    BY EvaluationAssumption
  <2>4. PICK head : head = [timestep |-> n]
    OBVIOUS
  <2>5. DOMAIN row = {"timestep", "throughput", "responsetime"}
    <3>1. row = head ++ m /\ DOMAIN head = {"timestep"}
      BY <2>2, <2>4
    <3>2. DOMAIN row = DOMAIN head \union DOMAIN m
      BY <3>1 DEF ++
    <3> QED  BY <2>3, <3>1, <3>2
  <2>6. row.throughput = m.throughput /\ row.responsetime = m.responsetime
    <3>1. row = head ++ m /\ DOMAIN head = {"timestep"}
      BY <2>2, <2>4
    <3>2. \A x \in DOMAIN m : x \notin DOMAIN head => row[x] = m[x]
      BY <3>1 DEF ++
    <3> QED  BY <2>3, <3>1, <3>2
  <2>7. row.timestep = l - 1
    BY <1>6, <1>8, <2>1
  <2>8. PICK place : place = [file |-> f, line |-> l]
    OBVIOUS
  <2>9. DOMAIN place = {"file", "line"} /\ place.file = f /\ place.line = l
    BY <2>8
  <2>10. PICK line : line = row ++ place
    OBVIOUS
  <2>11. \A x \in DOMAIN row : line[x] = row[x]
    BY <2>10 DEF ++
  <2>12. line.file = f /\ line.line = l
    BY <2>5, <2>9, <2>10 DEF ++
  <2>13. ClientLine(run, f, l) = line
    BY <1>2, <2>1, <2>8, <2>10 DEF ClientLine
  <2>14. line.timestep = row.timestep /\ line.throughput = row.throughput /\ line.responsetime = row.responsetime
    BY <2>5, <2>11
  <2> QED  BY <2>1, <2>3, <2>6, <2>7, <2>12, <2>13, <2>14
<1> QED
  BY <1>2, <1>4, <1>8, <1>9, <1>10

\* The rows of a second, and the lines that were printed in it, are one of each
\* log that has the second.
LEMMA RowsOfSecond ==
    ASSUME NEW run, ClientLogsAre(run), NEW second \in Nat,
           NEW rows, rows = Concatenated(Files(run, ClientLogs)), NEW logs, logs = LogsWith(run, second)
    PROVE  /\ IsFiniteSet(logs)
           /\ Enumerates([f \in logs |-> ClientLine(run, f, second + 1)], logs, At(rows, second))
           /\ Enumerates([f \in logs |-> <<ClientLogs[f], second + 1>>], logs, PrintedIn(run, second))
<1>1. PICK l \in Nat : l = second + 1
  OBVIOUS
<1>2. PICK rowOf, placeOf : rowOf = [f \in logs |-> ClientLine(run, f, l)] /\ placeOf = [f \in logs |-> <<ClientLogs[f], l>>]
  OBVIOUS
<1>3. \A f : f \in logs <=> f \in DOMAIN ClientLogs /\ l \in DOMAIN run.clients[ClientLogs[f]]
  BY <1>1 DEF LogsWith
<1>4. IsFiniteSet(logs)
  <2>1. PICK S : S = Range(ClientLogs)
    OBVIOUS
  <2>2. ClientLogs \in Seq(S)
    BY <2>1, EvaluationAssumption
  <2>3. PICK n \in Nat : DOMAIN ClientLogs = 1..n
    BY <2>2
  <2>4. IsFiniteSet(DOMAIN ClientLogs)
    BY <2>3, FS_Interval
  <2>5. logs \in SUBSET DOMAIN ClientLogs
    BY <1>3
  <2> QED  BY <2>4, <2>5, FS_Subset
<1>5. \A f \in logs : /\ rowOf[f].file = f /\ rowOf[f].timestep = second
                      /\ run.clients[ClientLogs[f]][l].timestep = second
                      /\ l <= Warmup + 1 + MaxLines
  <2>1. SUFFICES ASSUME NEW f \in logs
                 PROVE  /\ rowOf[f].file = f /\ rowOf[f].timestep = second
                        /\ run.clients[ClientLogs[f]][l].timestep = second
                        /\ l <= Warmup + 1 + MaxLines
    OBVIOUS
  <2>2. PICK length \in Nat :
            /\ DOMAIN run.clients[ClientLogs[f]] = 1..length
            /\ length <= Warmup + 1 + MaxLines
            /\ \A n \in 1..length :
                /\ run.clients[ClientLogs[f]][n].timestep = n - 1
                /\ ClientLine(run, f, n).file = f
                /\ ClientLine(run, f, n).timestep = n - 1
    BY <1>3 DEF ClientLogsAre
  <2>3. l \in 1..length
    BY <1>3, <2>2
  <2>4. PICK most \in Int : most = Warmup + 1 + MaxLines
    BY ChartAssumption, EvaluationAssumption
  <2>5. l <= most
    BY <2>2, <2>3, <2>4
  <2> QED  BY <1>1, <1>2, <2>2, <2>3, <2>4, <2>5
<1>6. Concatenated(Files(run, ClientLogs)) =
        UNION {{ClientLine(run, f, n) : n \in DOMAIN run.clients[ClientLogs[f]]} : f \in DOMAIN ClientLogs}
  BY DEF Concatenated, Files, ClientLine
<1>7. Enumerates(rowOf, logs, At(rows, second))
  <2>1. \A f \in logs : rowOf[f] \in At(rows, second)
    <3>1. SUFFICES ASSUME NEW f \in logs PROVE rowOf[f] \in At(rows, second)
      OBVIOUS
    <3>2. rowOf[f] \in rows
      BY <1>2, <1>3, <1>6
    <3> QED  BY <1>5, <3>2 DEF At
  <2>2. \A r \in At(rows, second) : \E f \in logs : rowOf[f] = r
    <3>1. SUFFICES ASSUME NEW r \in At(rows, second) PROVE \E f \in logs : rowOf[f] = r
      OBVIOUS
    <3>2. r \in rows /\ r.timestep = second
      BY DEF At
    <3>3. PICK f \in DOMAIN ClientLogs : \E n \in DOMAIN run.clients[ClientLogs[f]] : r = ClientLine(run, f, n)
      BY <1>6, <3>2
    <3>4. PICK n \in DOMAIN run.clients[ClientLogs[f]] : r = ClientLine(run, f, n)
      BY <3>3
    <3>5. PICK length \in Nat :
            /\ DOMAIN run.clients[ClientLogs[f]] = 1..length
            /\ \A o \in 1..length : ClientLine(run, f, o).timestep = o - 1
      BY DEF ClientLogsAre
    <3>6. n = l
      BY <1>1, <3>2, <3>4, <3>5
    <3> QED  BY <1>2, <1>3, <3>4, <3>6
  <2>3. \A f, g \in logs : rowOf[f] = rowOf[g] => f = g
    BY <1>5
  <2> QED  BY <2>1, <2>2, <2>3 DEF Enumerates
<1>8. \A p : p \in PrintedIn(run, second) <=>
                /\ p \in Range(ClientLogs) \X (1..(Warmup + 1 + MaxLines))
                /\ p[2] \in DOMAIN run.clients[p[1]] /\ run.clients[p[1]][p[2]].timestep = second
  BY DEF PrintedIn
<1>9. Enumerates(placeOf, logs, PrintedIn(run, second))
  <2>1. \A f \in logs : placeOf[f] \in PrintedIn(run, second)
    <3>1. SUFFICES ASSUME NEW f \in logs PROVE placeOf[f] \in PrintedIn(run, second)
      OBVIOUS
    <3>2. placeOf[f] = <<ClientLogs[f], l>>
      BY <1>2
    <3>3. ClientLogs[f] \in Range(ClientLogs)
      BY <1>3 DEF Range
    <3>4. l \in 1..(Warmup + 1 + MaxLines)
      <4>1. PICK most \in Int : most = Warmup + 1 + MaxLines
        BY ChartAssumption, EvaluationAssumption
      <4>2. l <= most
        BY <1>5, <4>1
      <4> QED  BY <1>1, <4>1, <4>2
    <3> QED  BY <1>3, <1>5, <1>8, <3>2, <3>3, <3>4
  <2>2. \A p \in PrintedIn(run, second) : \E f \in logs : placeOf[f] = p
    <3>1. SUFFICES ASSUME NEW p \in PrintedIn(run, second) PROVE \E f \in logs : placeOf[f] = p
      OBVIOUS
    <3>2. PICK log \in Range(ClientLogs), n \in 1..(Warmup + 1 + MaxLines) : p = <<log, n>>
      BY <1>8
    <3>3. n \in DOMAIN run.clients[log] /\ run.clients[log][n].timestep = second
      BY <1>8, <3>2
    <3>4. PICK f \in DOMAIN ClientLogs : log = ClientLogs[f]
      BY DEF Range
    <3>5. PICK length \in Nat :
            /\ DOMAIN run.clients[ClientLogs[f]] = 1..length
            /\ \A o \in 1..length : run.clients[ClientLogs[f]][o].timestep = o - 1
      BY DEF ClientLogsAre
    <3>6. n = l
      BY <1>1, <3>3, <3>4, <3>5
    <3> QED  BY <1>2, <1>3, <3>2, <3>3, <3>4, <3>6
  <2>3. \A f, g \in logs : placeOf[f] = placeOf[g] => f = g
    <3>1. \A f, g \in DOMAIN ClientLogs : ClientLogs[f] = ClientLogs[g] => f = g
      BY EvaluationAssumption DEF IsInjective
    <3> QED  BY <1>2, <1>3, <3>1
  <2> QED  BY <2>1, <2>2, <2>3 DEF Enumerates
<1> QED
  BY <1>1, <1>2, <1>4, <1>7, <1>9

\* Every second is printed when those before it are: the number of a row is its second.
LEMMA SecondsBefore ==
    ASSUME NEW run, ClientLogsAre(run), NEW rows, rows = Concatenated(Files(run, ClientLogs)),
           NEW second \in SecondsOf(rows)
    PROVE  second \in Nat /\ Cardinality({s \in SecondsOf(rows) : s < second}) = second
<1>1. Concatenated(Files(run, ClientLogs)) =
        UNION {{ClientLine(run, f, n) : n \in DOMAIN run.clients[ClientLogs[f]]} : f \in DOMAIN ClientLogs}
  BY DEF Concatenated, Files, ClientLine
<1>2. ASSUME NEW s \in SecondsOf(rows)
      PROVE  s \in Nat /\ \A t \in Nat : t < s => t \in SecondsOf(rows)
  <2>1. PICK r \in rows : s = r.timestep
    BY DEF SecondsOf
  <2>2. PICK f \in DOMAIN ClientLogs : \E n \in DOMAIN run.clients[ClientLogs[f]] : r = ClientLine(run, f, n)
    BY <1>1
  <2>3. PICK n \in DOMAIN run.clients[ClientLogs[f]] : r = ClientLine(run, f, n)
    BY <2>2
  <2>4. PICK length \in Nat :
            /\ DOMAIN run.clients[ClientLogs[f]] = 1..length
            /\ \A o \in 1..length : ClientLine(run, f, o).timestep = o - 1
    BY DEF ClientLogsAre
  <2>5. n \in 1..length /\ s = n - 1
    BY <2>1, <2>3, <2>4
  <2>6. ASSUME NEW t \in Nat, t < s PROVE t \in SecondsOf(rows)
    <3>1. PICK o \in 1..length : o = t + 1
      BY <2>5, <2>6
    <3>2. ClientLine(run, f, o) \in rows
      BY <1>1, <2>4
    <3>3. ClientLine(run, f, o).timestep = t
      BY <2>4, <3>1
    <3> QED  BY <3>2, <3>3 DEF SecondsOf
  <2> QED  BY <2>5, <2>6
<1>3. PICK d \in Nat : d = second
  BY <1>2
<1>4. {s \in SecondsOf(rows) : s < second} = 0..(d - 1)
  <2>1. PICK S, before : S = SecondsOf(rows) /\ before = {s \in S : s < second}
    OBVIOUS
  <2>2. \A s \in before : s \in 0..(d - 1)
    BY <1>2, <1>3, <2>1
  <2>3. \A t \in 0..(d - 1) : t \in before
    BY <1>2, <1>3, <2>1
  <2>4. before = 0..(d - 1)
    BY <2>2, <2>3
  <2> QED  BY <2>1, <2>4
<1>5. Cardinality(0..(d - 1)) = d
  <2>1. PICK a \in Int, b \in Int : a = 0 /\ b = d - 1
    OBVIOUS
  <2>2. Cardinality(a..b) = IF a > b THEN 0 ELSE b - a + 1
    BY FS_Interval
  <2> QED  BY <2>1, <2>2
<1> QED
  BY <1>3, <1>4, <1>5

\* The rows and the lines of a second, which have the same values.
SameValues(run, second, v, g, h) ==
    \A f \in LogsWith(run, second) :
        v[f] \in Nat /\ g[ClientLine(run, f, second + 1)] = v[f] /\ h[<<ClientLogs[f], second + 1>>] = v[f]

SameSum(g, S, h, T) ==
    /\ SumFunctionOnSet(g, S) = SumFunctionOnSet(h, T) /\ SumFunctionOnSet(g, S) \in Nat
    /\ IsFiniteSet(S) /\ IntegersOn(g, S)

\* What is added up over the rows of a second is added up over its lines.
LEMMA SumsOfSecond ==
    ASSUME NEW run, ClientLogsAre(run), NEW second \in Nat, NEW v, NEW g, NEW h,
           SameValues(run, second, v, g, h)
    PROVE  SameSum(g, At(Concatenated(Files(run, ClientLogs)), second), h, PrintedIn(run, second))
<1>1. PICK logs, rows, at, printed, b, c :
        /\ logs = LogsWith(run, second) /\ rows = Concatenated(Files(run, ClientLogs))
        /\ at = At(rows, second) /\ printed = PrintedIn(run, second)
        /\ b = [f \in logs |-> ClientLine(run, f, second + 1)]
        /\ c = [f \in logs |-> <<ClientLogs[f], second + 1>>]
  OBVIOUS
<1>2. IsFiniteSet(logs) /\ Enumerates(b, logs, at) /\ Enumerates(c, logs, printed)
  BY <1>1, RowsOfSecond
<1>3. \A f \in logs : v[f] \in Nat
  BY <1>1 DEF SameValues
<1>4. \A f \in logs : g[b[f]] = v[f]
  BY <1>1 DEF SameValues
<1>5. \A f \in logs : h[c[f]] = v[f]
  BY <1>1 DEF SameValues
<1>6. IntegersOn(v, logs)
  BY <1>3 DEF IntegersOn
<1>7. SumFunctionOnSet(g, at) = SumFunctionOnSet(v, logs)
  BY <1>2, <1>4, <1>6, SumOfEnumerated
<1>8. SumFunctionOnSet(h, printed) = SumFunctionOnSet(v, logs)
  BY <1>2, <1>5, <1>6, SumOfEnumerated
<1>9. SumFunctionOnSet(v, logs) \in Nat
  BY <1>2, <1>3, SumAtLeast
<1>10. IsFiniteSet(at)
  BY <1>2, SameSize
<1>11. IntegersOn(g, at)
  BY <1>2, <1>3, <1>4 DEF Enumerates, IntegersOn
<1> QED
  BY <1>1, <1>7, <1>8, <1>9, <1>10, <1>11 DEF SameSum

\* What the lines of a second say.
LEMMA LinesOfSecond ==
    ASSUME NEW run, ClientLogsAre(run), NEW second \in Nat
    PROVE  \A f \in LogsWith(run, second) : \E row, line :
            /\ row = run.clients[ClientLogs[f]][second + 1] /\ line = ClientLine(run, f, second + 1)
            /\ row.throughput \in Nat /\ row.responsetime \in Nat
            /\ line.throughput = row.throughput /\ line.responsetime = row.responsetime
<1>1. SUFFICES ASSUME NEW f \in LogsWith(run, second)
               PROVE  \E row, line :
                        /\ row = run.clients[ClientLogs[f]][second + 1] /\ line = ClientLine(run, f, second + 1)
                        /\ row.throughput \in Nat /\ row.responsetime \in Nat
                        /\ line.throughput = row.throughput /\ line.responsetime = row.responsetime
  OBVIOUS
<1>2. PICK l : l = second + 1
  OBVIOUS
<1>3. f \in DOMAIN ClientLogs /\ l \in DOMAIN run.clients[ClientLogs[f]]
  BY <1>2 DEF LogsWith
<1>4. PICK length \in Nat :
        /\ DOMAIN run.clients[ClientLogs[f]] = 1..length
        /\ \A n \in 1..length :
            /\ run.clients[ClientLogs[f]][n].throughput \in Nat
            /\ run.clients[ClientLogs[f]][n].responsetime \in Nat
            /\ ClientLine(run, f, n).throughput = run.clients[ClientLogs[f]][n].throughput
            /\ ClientLine(run, f, n).responsetime = run.clients[ClientLogs[f]][n].responsetime
  BY <1>3 DEF ClientLogsAre
<1>5. PICK row, line : row = run.clients[ClientLogs[f]][l] /\ line = ClientLine(run, f, l)
  OBVIOUS
<1> QED
  BY <1>2, <1>3, <1>4, <1>5

\* The operations of a second, and their response times.
OperationsIn(run, second) ==
    SumFunction([p \in PrintedIn(run, second) |-> run.clients[p[1]][p[2]].throughput])
TimesIn(run, second) ==
    SumFunction([p \in PrintedIn(run, second) |->
                    run.clients[p[1]][p[2]].throughput * run.clients[p[1]][p[2]].responsetime])

\* A row of the clients is that of its second.
LEMMA RowOfClients ==
    ASSUME NEW run, ClientLogsAre(run), NEW row \in aggregate_over_clients(Files(run, ClientLogs)),
           NEW T, T = OperationsIn(run, row.timestep), NEW P, P = TimesIn(run, row.timestep)
    PROVE  /\ row.timestep \in Nat /\ row.index = row.timestep
           /\ T \in Nat /\ row.throughput = Whole(T)
           /\ P \in Nat /\ row.responsetime = Over(Whole(P), Whole(T))
<1>1. PICK rows : rows = Concatenated(Files(run, ClientLogs))
  OBVIOUS
<1>2. PICK second \in SecondsOf(rows) :
        row = [timestep |-> second,
               throughput |-> Total([r \in At(rows, second) |-> Whole(r.throughput)]),
               responsetime |-> Over(Total([r \in At(rows, second) |-> Whole(r.throughput * r.responsetime)]),
                                     Total([r \in At(rows, second) |-> Whole(r.throughput)])),
               index |-> Cardinality({s \in SecondsOf(rows) : s < second})]
  BY <1>1 DEF aggregate_over_clients
<1>3. PICK at : at = At(rows, second)
  OBVIOUS
<1>12. PICK printed : printed = PrintedIn(run, second)
  OBVIOUS
<1>4. PICK throughputs, products : /\ throughputs = [r \in at |-> Whole(r.throughput)]
                                   /\ products = [r \in at |-> Whole(r.throughput * r.responsetime)]
  OBVIOUS
<1>5. /\ row.timestep = second
      /\ row.throughput = Total(throughputs)
      /\ row.responsetime = Over(Total(products), Total(throughputs))
      /\ row.index = Cardinality({s \in SecondsOf(rows) : s < second})
  BY <1>2, <1>3, <1>4
<1>6. second \in Nat /\ row.index = second
  BY <1>1, <1>5, SecondsBefore
<1>7. PICK logs : logs = LogsWith(run, second)
  OBVIOUS
<1>8. \A f \in logs : \E line, read :
        /\ line = run.clients[ClientLogs[f]][second + 1] /\ read = ClientLine(run, f, second + 1)
        /\ line.throughput \in Nat /\ line.responsetime \in Nat
        /\ read.throughput = line.throughput /\ read.responsetime = line.responsetime
  BY <1>6, <1>7, LinesOfSecond
<1>9. /\ \A f \in logs : ClientLine(run, f, second + 1) \in at
      /\ \A f \in logs : <<ClientLogs[f], second + 1>> \in printed
  <2>1. /\ Enumerates([f \in logs |-> ClientLine(run, f, second + 1)], logs, at)
        /\ Enumerates([f \in logs |-> <<ClientLogs[f], second + 1>>], logs, printed)
    BY <1>1, <1>3, <1>6, <1>7, <1>12, RowsOfSecond
  <2>2. \A f \in logs : [e \in logs |-> ClientLine(run, e, second + 1)][f] \in at
    BY <2>1 DEF Enumerates
  <2>3. \A f \in logs : [e \in logs |-> <<ClientLogs[e], second + 1>>][f] \in printed
    BY <2>1 DEF Enumerates
  <2> QED  BY <2>2, <2>3
<1>10. T \in Nat /\ Total(throughputs) = Whole(T)
  <2>1. PICK v, g, h : /\ v = [f \in logs |-> run.clients[ClientLogs[f]][second + 1].throughput]
                       /\ g = [r \in at |-> r.throughput]
                       /\ h = [p \in printed |-> run.clients[p[1]][p[2]].throughput]
    OBVIOUS
  <2>2. \A f \in logs : v[f] \in Nat
    BY <1>8, <2>1
  <2>3. \A f \in logs : g[ClientLine(run, f, second + 1)] = v[f]
    BY <1>8, <1>9, <2>1
  <2>4. \A f \in logs : h[<<ClientLogs[f], second + 1>>] = v[f]
    BY <1>9, <2>1
  <2>5. /\ SumFunctionOnSet(g, at) = SumFunctionOnSet(h, printed) /\ SumFunctionOnSet(g, at) \in Nat
        /\ IsFiniteSet(at) /\ IntegersOn(g, at)
    <3>1. SameValues(run, second, v, g, h)
      BY <1>7, <2>2, <2>3, <2>4 DEF SameValues
    <3>2. SameSum(g, At(Concatenated(Files(run, ClientLogs)), second), h, PrintedIn(run, second))
      BY <1>6, <3>1, SumsOfSecond
    <3> QED  BY <1>1, <1>3, <1>12, <3>2 DEF SameSum
  <2>6. DOMAIN throughputs = at /\ \A r \in at : throughputs[r] = Whole(g[r])
    BY <1>4, <2>1
  <2>7. Total(throughputs) = Whole(SumFunctionOnSet(g, at))
    BY <2>5, <2>6, TotalOfWhole
  <2>8. T = SumFunctionOnSet(h, printed)
    <3>1. T = SumFunction(h) /\ DOMAIN h = printed
      BY <1>5, <1>12, <2>1 DEF OperationsIn
    <3> QED  BY <3>1 DEF SumFunction
  <2> QED  BY <2>5, <2>7, <2>8
<1>11. P \in Nat /\ Total(products) = Whole(P)
  <2>1. PICK v, g, h : /\ v = [f \in logs |-> run.clients[ClientLogs[f]][second + 1].throughput
                                                * run.clients[ClientLogs[f]][second + 1].responsetime]
                       /\ g = [r \in at |-> r.throughput * r.responsetime]
                       /\ h = [p \in printed |->
                                run.clients[p[1]][p[2]].throughput * run.clients[p[1]][p[2]].responsetime]
    OBVIOUS
  <2>2. \A f \in logs : v[f] \in Nat
    <3>1. SUFFICES ASSUME NEW f \in logs PROVE v[f] \in Nat
      OBVIOUS
    <3>2. PICK x \in Nat, y \in Nat : /\ x = run.clients[ClientLogs[f]][second + 1].throughput
                                      /\ y = run.clients[ClientLogs[f]][second + 1].responsetime
      BY <1>8
    <3>3. x * y \in Nat
      OBVIOUS
    <3> QED  BY <2>1, <3>2, <3>3
  <2>3. \A f \in logs : g[ClientLine(run, f, second + 1)] = v[f]
    BY <1>8, <1>9, <2>1
  <2>4. \A f \in logs : h[<<ClientLogs[f], second + 1>>] = v[f]
    BY <1>9, <2>1
  <2>5. /\ SumFunctionOnSet(g, at) = SumFunctionOnSet(h, printed) /\ SumFunctionOnSet(g, at) \in Nat
        /\ IsFiniteSet(at) /\ IntegersOn(g, at)
    <3>1. SameValues(run, second, v, g, h)
      BY <1>7, <2>2, <2>3, <2>4 DEF SameValues
    <3>2. SameSum(g, At(Concatenated(Files(run, ClientLogs)), second), h, PrintedIn(run, second))
      BY <1>6, <3>1, SumsOfSecond
    <3> QED  BY <1>1, <1>3, <1>12, <3>2 DEF SameSum
  <2>6. DOMAIN products = at /\ \A r \in at : products[r] = Whole(g[r])
    BY <1>4, <2>1
  <2>7. Total(products) = Whole(SumFunctionOnSet(g, at))
    BY <2>5, <2>6, TotalOfWhole
  <2>8. P = SumFunctionOnSet(h, printed)
    <3>1. P = SumFunction(h) /\ DOMAIN h = printed
      BY <1>5, <1>12, <2>1 DEF TimesIn
    <3> QED  BY <3>1 DEF SumFunction
  <2> QED  BY <2>5, <2>7, <2>8
<1> QED
  BY <1>5, <1>6, <1>10, <1>11

\* The seconds of the clients are cut by their number, with their weights.
LEMMA ClientsAreCut ==
    LogsGood => ClientSecondsCut
<1>1. SUFFICES ASSUME LogsGood, NEW run \in Runs, NEW r \in ClientMetrics(run, ClientLogs, Warmup, Cooldown)
               PROVE  LET at(p) == run.clients[p[1]][p[2]]
                          printed(second) == {p \in Range(ClientLogs) \X (1..(Warmup + 1 + MaxLines)) :
                                                p[2] \in DOMAIN run.clients[p[1]] /\ at(p).timestep = second}
                      IN /\ r.timestep \in Warmup..Cooldown
                         /\ r.throughput = Whole(SumFunction([p \in printed(r.timestep) |-> at(p).throughput]))
                         /\ r.throughput # Zero => Times(r.throughput, r.responsetime) =
                                Whole(SumFunction([p \in printed(r.timestep) |->
                                                    at(p).throughput * at(p).responsetime]))
  BY DEF ClientSecondsCut
<1>2. ClientLogsAre(run)
  <2>1. RunGood(run, lines)
    BY <1>1, RunsAreGood
  <2>2. PICK k \in Nat : k = lines /\ k <= MaxLines
    BY <1>1 DEF LogsGood
  <2> QED  BY <2>1, <2>2, ClientLines
<1>3. r \in aggregate_over_clients(Files(run, ClientLogs)) /\ Warmup <= r.index /\ r.index <= Cooldown
  BY DEF ClientMetrics, cut_clients, cut_away_warmup_cooldown
<1>4. PICK printed : printed = PrintedIn(run, r.timestep)
  OBVIOUS
<1>5. PICK g, h : /\ g = [p \in printed |-> run.clients[p[1]][p[2]].throughput]
                  /\ h = [p \in printed |->
                            run.clients[p[1]][p[2]].throughput * run.clients[p[1]][p[2]].responsetime]
  OBVIOUS
<1>6. PICK T, P : T = OperationsIn(run, r.timestep) /\ P = TimesIn(run, r.timestep)
  OBVIOUS
<1>7. /\ r.timestep \in Nat /\ r.index = r.timestep
      /\ T \in Nat /\ r.throughput = Whole(T)
      /\ P \in Nat /\ r.responsetime = Over(Whole(P), Whole(T))
  BY <1>2, <1>3, <1>6, RowOfClients
<1>8. r.timestep \in Warmup..Cooldown
  BY <1>3, <1>7, ChartAssumption
<1>9. r.throughput # Zero => Times(r.throughput, r.responsetime) = Whole(P)
  <2>1. SUFFICES ASSUME T # 0 PROVE Times(Whole(T), Over(Whole(P), Whole(T))) = Whole(P)
    BY <1>7 DEF Zero
  <2> QED  BY <1>7, <2>1, WholeTimesOver
<1>10. SumFunction(g) = T /\ SumFunction(h) = P
  BY <1>4, <1>5, <1>6 DEF OperationsIn, TimesIn
<1>11. printed = {p \in Range(ClientLogs) \X (1..(Warmup + 1 + MaxLines)) :
                    p[2] \in DOMAIN run.clients[p[1]] /\ run.clients[p[1]][p[2]].timestep = r.timestep}
  BY <1>4 DEF PrintedIn
<1> QED
  BY <1>5, <1>7, <1>8, <1>9, <1>10, <1>11

-----------------------------------------------------------------------------
(* The theorem.                                                            *)

\* Whatever is logged, and by however many middlewares and clients: the
\* averages of a repetition are those of the requests and seconds between
\* warm-up and cool-down, each counted once (gather_middleware_statistics.py,
\* gather_memtier_statistics.py).
THEOREM AveragesFromLogs ==
    Spec => []AveragesAreRight
<1>1. LogsGood => AveragesAreRight
  BY MetricsArePooled, EveryRequestCountsOnce, WholeSecondsCounted, ClientsAreCut DEF AveragesAreRight
<1> QED
  BY <1>1, LogsGoodInvariant, PTL
=============================================================================
