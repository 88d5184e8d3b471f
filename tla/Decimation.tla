----------------------------- MODULE Decimation -----------------------------
(***************************************************************************)
(* Fitting a history onto an axis: lttb, min_max_lttb and rdp in            *)
(* xtce-gs-core/src/decimate.rs.  Points are of integers, areas and         *)
(* distances are compared as the integers they are of.  Where a bucket ends *)
(* is a product of two floating-point numbers, and is modelled with its     *)
(* roundings: a significand has MantissaBits bits, 53 in the code.          *)
(***************************************************************************)
EXTENDS Option, Integers, SequencesExt

CONSTANTS
    MantissaBits,
    Series,                         \* histories, as sequences of points
    Budgets, Ratios, Tolerances     \* what they are reduced to

ASSUME DecimationAssumption ==
    /\ MantissaBits \in Nat \ {0} /\ Ratios \subseteq Nat /\ Budgets \subseteq Nat
    /\ Tolerances \subseteq Nat
    /\ \A points \in Series : \A n \in 2..Len(points) : points[n - 1].t <= points[n].t

VARIABLE plot    \* a history and what is drawn of it, None before there is one

-----------------------------------------------------------------------------
Nearest(scaled, denominator) ==
    LET below == scaled \div denominator
        rest == 2 * (scaled % denominator)
    IN  IF rest > denominator \/ (rest = denominator /\ below % 2 = 1) THEN below + 1 ELSE below

Exponent(numerator, denominator) ==
    CHOOSE e \in 0..MantissaBits :
        /\ 2^(MantissaBits - 1) * denominator <= numerator * 2^e
        /\ numerator * 2^e < 2^MantissaBits * denominator

\* The nearest floating-point number, to even where two are, as a numerator and
\* a denominator.
Float(numerator, denominator) ==
    LET Scaled(e) == <<Nearest(numerator * 2^e, denominator), 2^e>>
    IN  IF numerator = 0 THEN <<0, 1>> ELSE Scaled(Exponent(numerator, denominator))

\* (i as f64 * every) as usize, with every = over / buckets.
Edge(i, over, buckets) ==
    LET Truncated(product) == product[1] \div product[2]
        Times(every) == Truncated(Float(i * every[1], every[2]))
    IN  Times(Float(over, buckets))

PointAt(points, index) == points[index + 1]

\* The first index that no other surpasses.
FirstMost(measure) ==
    LET most == Max({measure[k] : k \in DOMAIN measure})
    IN  Min({k \in DOMAIN measure : measure[k] = most})

\* The indices from one edge to the next, of the points there are.
Bucket(edges, i, size) == {k \in edges[i]..(edges[i + 1] - 1) : k < size}

\* The points of the next bucket, whose average is a corner, added up; the last
\* point stands in for a bucket that is empty.
Corner(points, bucket) ==
    IF bucket = {} THEN [t |-> Last(points).t, v |-> Last(points).v, count |-> 1]
    ELSE [t |-> MapThenSumSet(LAMBDA k : PointAt(points, k).t, bucket),
          v |-> MapThenSumSet(LAMBDA k : PointAt(points, k).v, bucket),
          count |-> Cardinality(bucket)]

\* Twice the area of the triangle, as many times as the bucket has points.
Area(a, corner, p) ==
    LET twice == (a.t * corner.count - corner.t) * (p.v - a.v)
                 - (a.t - p.t) * (corner.v - a.v * corner.count)
    IN  IF twice >= 0 THEN twice ELSE -twice

\* The point of most area in a bucket; where an empty one starts, otherwise.
Best(points, anchor, corner, bucket, start) ==
    IF bucket = {} THEN start
    ELSE FirstMost([k \in bucket |->
            Area(PointAt(points, anchor), corner, PointAt(points, k))])

Thinned(points, threshold, edges) ==
    LET size == Len(points)
        Take(state, best) ==
            IF best >= size THEN state
            ELSE [out |-> Append(state.out, PointAt(points, best)), anchor |-> best]
        Choose(state, i) ==
            Take(state, Best(points, state.anchor, Corner(points, Bucket(edges, i + 1, size)),
                             Bucket(edges, i, size), edges[i]))
        chosen == FoldLeft(Choose, [out |-> <<Head(points)>>, anchor |-> 0],
                           [k \in 1..(threshold - 2) |-> k - 1])
    IN  Append(chosen.out, Last(points))

lttb(points, threshold) ==
    LET n == Len(points) IN
    IF threshold >= n THEN points
    ELSE IF threshold < 3 THEN <<points[1]>> \o (IF n > 1 THEN <<points[n]>> ELSE <<>>)
    ELSE Thinned(points, threshold,
                 [i \in 0..threshold |-> Edge(i, n - 2, threshold - 2) + 1])

\* The least and the greatest of each of more buckets, in order of time.
Extremes(points, threshold, ratio) ==
    LET buckets == Max({threshold - 2, 1}) * ratio
        Both(low, high) ==
            IF low = high THEN <<PointAt(points, low)>>
            ELSE <<PointAt(points, Min({low, high})), PointAt(points, Max({low, high}))>>
        Of(bucket) ==
            IF bucket = {} THEN <<>>
            ELSE Both(FirstMost([k \in bucket |-> -PointAt(points, k).v]),
                      FirstMost([k \in bucket |-> PointAt(points, k).v]))
        edges == [b \in 0..buckets |-> Edge(b, Len(points), buckets)]
    IN  <<Head(points)>>
        \o FlattenSeq([b \in 1..buckets |-> Of(Bucket(edges, b - 1, Len(points)))])
        \o <<Last(points)>>

AtLeastOne(ratio) == Max({ratio, 1})

Preselected(points, threshold, ratio) ==
    IF threshold * AtLeastOne(ratio) >= Len(points) \/ threshold >= Len(points) \/ threshold < 3
      THEN points
      ELSE Extremes(points, threshold, AtLeastOne(ratio))

min_max_lttb(points, threshold, ratio) == lttb(Preselected(points, threshold, ratio), threshold)

\* How far a point is from a line, times the line's length; both squared.  Of a
\* line between one point and itself, from that point.
Apart(a, b, p) ==
    LET cross == (b.t - a.t) * (a.v - p.v) - (a.t - p.t) * (b.v - a.v)
    IN  IF a.t = b.t /\ a.v = b.v THEN (p.t - a.t)^2 + (p.v - a.v)^2 ELSE cross^2
SquareLength(a, b) ==
    IF a.t = b.t /\ a.v = b.v THEN 1 ELSE (b.t - a.t)^2 + (b.v - a.v)^2

rdp(points, epsilon) ==
    LET last == Len(points)
        Kept[start \in 1..last, end \in 1..last] ==
            LET a == points[start]
                b == points[end]
                worst == FirstMost([k \in (start + 1)..(end - 1) |-> Apart(a, b, points[k])])
            IN  IF end <= start + 1
                     \/ Apart(a, b, points[worst]) <= epsilon^2 * SquareLength(a, b)
                  THEN {}
                  ELSE {worst} \union Kept[start, worst] \union Kept[worst, end]
        kept == SelectSeq([k \in 1..last |-> k],
                          LAMBDA k : k \in {1, last} \union Kept[1, last])
    IN  IF last < 3 THEN points ELSE [n \in DOMAIN kept |-> points[kept[n]]]

(***************************************************************************)
(* A plot is filled from a history, and drawn for a width or a tolerance.   *)
(***************************************************************************)
FillPlot ==
    /\ plot = None
    /\ \E points \in Series : plot' = [points |-> points, drawn |-> None]

DrawReduced ==
    /\ plot.drawn = None
    /\ \E budget \in Budgets, ratio \in Ratios :
        plot' = [plot EXCEPT !.drawn =
                    [by |-> "budget", budget |-> budget, ratio |-> ratio,
                     out |-> lttb(plot.points, budget),
                     reduced |-> min_max_lttb(plot.points, budget, ratio)]]

DrawSimplified ==
    /\ plot.drawn = None
    /\ \E epsilon \in Tolerances :
        plot' = [plot EXCEPT !.drawn = [by |-> "tolerance", epsilon |-> epsilon,
                                        out |-> rdp(plot.points, epsilon)]]

PlotStep == DrawReduced \/ DrawSimplified

DecimationInit == plot = None
DecimationNext == FillPlot \/ (plot # None /\ PlotStep)
DecimationSpec == DecimationInit /\ [][DecimationNext]_plot

(***************************************************************************)
(* What is promised of what is drawn.                                       *)
(***************************************************************************)
\* Of the points there are, in their order of time, from the first to the last.
IsOutlineOf(out, points) ==
    /\ (out = <<>>) = (points = <<>>)
    /\ points # <<>> => Head(out) = Head(points) /\ Last(out) = Last(points)
    /\ ToSet(out) \subseteq ToSet(points)
    /\ \A n \in 2..Len(out) : out[n - 1].t <= out[n].t

\* The one value of a series that is not that of all the others, where no two
\* points are of one instant.
Spikes(points) ==
    {n \in 2..(Len(points) - 1) :
        /\ \A k \in 2..Len(points) : points[k - 1].t < points[k].t
        /\ \A k, l \in DOMAIN points \ {n} : points[k].v = points[l].v
        /\ points[n].v # points[1].v}

\* The buckets reach the last point but one, whatever was rounded.
BucketsReach(points, budget) ==
    budget \in 3..(Len(points) - 1) => Edge(budget - 2, Len(points) - 2, budget - 2) = Len(points) - 2

KeepsSpikes(out, points) == \A n \in Spikes(points) : points[n] \in ToSet(out)

\* Each point left out is as near as was asked to the line drawn in its place.
WithinTolerance(out, points, epsilon) ==
    \A n \in DOMAIN points :
        \/ points[n] \in ToSet(out)
        \/ \E k \in 2..Len(out) :
                /\ out[k - 1].t <= points[n].t /\ points[n].t <= out[k].t
                /\ Apart(out[k - 1], out[k], points[n])
                        <= epsilon^2 * SquareLength(out[k - 1], out[k])

PlotIsFaithful ==
    plot.drawn # None =>
        LET drawn == plot.drawn
            points == plot.points
        IN  /\ IsOutlineOf(drawn.out, points)
            /\ drawn.by = "tolerance" => WithinTolerance(drawn.out, points, drawn.epsilon)
            /\ drawn.by = "budget" =>
                /\ IsOutlineOf(drawn.reduced, points)
                /\ drawn.budget >= 3 => Len(drawn.out) <= drawn.budget
                                        /\ Len(drawn.reduced) <= drawn.budget
                /\ drawn.budget >= 3 /\ BucketsReach(points, drawn.budget) =>
                        KeepsSpikes(drawn.out, points)
                /\ drawn.budget >= 3
                     /\ BucketsReach(Preselected(points, drawn.budget, drawn.ratio), drawn.budget) =>
                        KeepsSpikes(drawn.reduced, points)

\* decimate.rs:18, "the point in each bucket that contributes most to the
\* visible shape"; its test a_one_sample_spike_survives, "the failure this
\* algorithm is chosen to avoid".
SpikeSurvives ==
    plot # None /\ plot.drawn # None =>
        (plot.drawn.by = "budget" /\ plot.drawn.budget >= 3 =>
            KeepsSpikes(plot.drawn.out, plot.points))

\* Histories of which one sample is not like the others.
OneSpike ==
    {[n \in 1..16 |-> [t |-> n, v |-> IF n = at THEN 5 ELSE 0]] : at \in 2..15}
=============================================================================
