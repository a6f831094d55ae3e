-------------------------------- MODULE Download --------------------------------
(***************************************************************************)
(* internal/download: how an update gets a file from a place that need not    *)
(* be trusted. A file is the release it holds; half a file, or one that was    *)
(* tampered with, is written with a minus sign.                                *)
(***************************************************************************)
EXTENDS Integers

CONSTANT Retries  \* attempts (5)

\* What an attempt meets: the published file or another one, a connection or a server
\* that fails (429 included), a refusal (any other 4xx), a caller who has gone.
Meetings == {"published", "damaged", "failing", "refused", "cancelled"}

Body(meets, rel) == IF meets = "published" THEN rel ELSE -rel

\* Variant: the digest is not compared.
LeavesAnyFile(meets) == meets \in {"published", "damaged"}

\* fetchOnce: a body with another digest is removed.
LeavesFile(meets) == meets = "published"

\* Fetch: what follows the n-th attempt.
AfterAttempt(meets, n) ==
    IF LeavesFile(meets) THEN "got"
    ELSE IF meets \in {"refused", "cancelled"} \/ n = Retries THEN "failed" ELSE "again"

===============================================================================
