----------------------------- MODULE Regression ------------------------------
(***************************************************************************)
(* Linear regression (analysis/regression.cpp) for times and IP IDs, which *)
(* are integers, with exact fractions in place of doubles: a fraction is a *)
(* pair of a numerator and a denominator, which is not negative and zero   *)
(* where the code divides by zero.  Roots are not drawn: a function of the *)
(* code that returns one is here its square.                               *)
(***************************************************************************)
EXTENDS Integers, Sequences
Sets == INSTANCE FiniteSetsExt

Same(p, q) == p[1] * q[2] = q[1] * p[2]

AtMost(p, q) == p[1] * q[2] <= q[1] * p[2]

Plus(p, q) == <<p[1] * q[2] + q[1] * p[2], p[2] * q[2]>>

Undefined(p) == p[2] = 0

Total(xs) == Sets!MapThenSumSet(LAMBDA i : xs[i], DOMAIN xs)

Dot(xs, ys) == Sets!MapThenSumSet(LAMBDA i : xs[i] * ys[i], DOMAIN xs)

(* The distances to the mean, times the number of values. *)
Distances(xs) == [i \in DOMAIN xs |-> Len(xs) * xs[i] - Total(xs)]

Sxx(xs) == <<Dot(Distances(xs), Distances(xs)), Len(xs) * Len(xs)>>

(* y_bar - m * x_bar *)
Intercept(xs, ys, m) == <<Total(ys) * m[2] - m[1] * Total(xs), Len(xs) * m[2]>>

Line(xs, ys, m) == [m |-> m, b |-> Intercept(xs, ys, m)]

LineOfBestFit_MeanForgotten(xs, ys) ==
  LET dnum == Len(xs) * Dot(xs, xs) - Total(xs) * Total(xs)
      numer == Len(xs) * Dot(xs, ys)
  IN  IF dnum = 0 THEN [m |-> <<0, 1>>, b |-> <<0, 1>>] ELSE Line(xs, ys, <<numer, dnum>>)

LineOfBestFit(xs, ys) ==
  LET dnum == Len(xs) * Dot(xs, xs) - Total(xs) * Total(xs)
      numer == Len(xs) * Dot(xs, ys) - Total(xs) * Total(ys)
  IN  IF dnum = 0 THEN [m |-> <<0, 1>>, b |-> <<0, 1>>] ELSE Line(xs, ys, <<numer, dnum>>)

LeastSquaresMethod(xs, ys) ==
  Line(xs, ys, <<Dot(Distances(xs), Distances(ys)), Dot(Distances(xs), Distances(xs))>>)

-----------------------------------------------------------------------------
Variance(xs, ddof) ==
  <<Dot(Distances(xs), Distances(xs)), Len(xs) * Len(xs) * (Len(xs) - ddof)>>

Covariance(xs, ys, ddof) ==
  <<Dot(Distances(xs), Distances(ys)), Len(xs) * Len(xs) * (Len(xs) - ddof)>>

(* Its square; the degrees of freedom cancel out. *)
CorrelationCoefficient(xs, ys, ddof) ==
  <<Covariance(xs, ys, ddof)[1] * Covariance(xs, ys, ddof)[1],
    Variance(xs, ddof)[1] * Variance(ys, ddof)[1]>>

(* How far the values are from a line, times the denominator of its b,     *)
(* which is that of m times the number of values.                          *)
Residuals(xs, ys, line) ==
  [i \in DOMAIN xs |-> ys[i] * line.b[2] - (line.m[1] * Len(xs) * xs[i] + line.b[1])]

SumSquaresResidualErrors(residuals) == Dot(residuals, residuals)

(* Standard errors, in units of sigma. *)
StdErrForPrediction(xs, chosen) ==
  LET diff == Len(xs) * chosen - Total(xs)
  IN  Plus(<<1 + Len(xs), Len(xs)>>, <<diff * diff, Dot(Distances(xs), Distances(xs))>>)

StdErrB(xs) ==
  Plus(<<1, Len(xs)>>, <<Total(xs) * Total(xs), Dot(Distances(xs), Distances(xs))>>)

StdErrM(xs) == <<Sxx(xs)[2], Sxx(xs)[1]>>

-----------------------------------------------------------------------------
(* Both ways to fit a line give the same, and no line is nearer to the     *)
(* values: the residuals add up to nothing, also weighed by the times, and *)
(* their squares to what the values have of them.  A correlation is not    *)
(* above one.  The three standard errors, for which the code has a loop    *)
(* each, agree: a prediction errs by what the values do and, at time zero, *)
(* by what b does, and b by what m does.                                   *)
FitIsBest(xs, ys) ==
  LET line == LeastSquaresMethod(xs, ys)
      left == Residuals(xs, ys, line)
  IN  /\ Same(line.m, LineOfBestFit(xs, ys).m) /\ Same(line.b, LineOfBestFit(xs, ys).b)
      /\ Total(left) = 0 /\ Dot(left, xs) = 0
      /\ SumSquaresResidualErrors(left) = line.b[2] * Dot(left, ys)
      /\ AtMost(CorrelationCoefficient(xs, ys, 1), <<1, 1>>)
      /\ Same(StdErrForPrediction(xs, 0), Plus(<<1, 1>>, StdErrB(xs)))
      /\ Same(StdErrB(xs), <<StdErrM(xs)[1] * Dot(xs, xs), StdErrM(xs)[2] * Len(xs)>>)
=============================================================================
