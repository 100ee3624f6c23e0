--------------------------- MODULE MCLoanLifecycle ---------------------------
(* Model values for two web workers, a job, documents and requests.        *)
EXTENDS LoanLifecycle
CONSTANTS w1, w2, job, d1, d2, q1, q2
=============================================================================
