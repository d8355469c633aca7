--------------------------- MODULE MCPackageCache ---------------------------
(* Small instances of PackageCache for TLC: two processes, the first with   *)
(* two tasks that ask for the same package, as the tasks of one             *)
(* installation do when they ask for the same bucket.                       *)
EXTENDS PackageCache, TLC

CONSTANTS t1, t2, t3, p1, p2, a, b

MCProcOf == (t1 :> p1) @@ (t2 :> p1) @@ (t3 :> p2)
MCProcOfTwo == (t1 :> p1) @@ (t3 :> p2)
\* Unfiltered layers, and writable layers that accept only what carries a hash.
AcceptAll == [s \in {a, b, NoSha} |-> 1..NLayers]
AcceptByHash == (a :> 1..NLayers) @@ (b :> 1..NLayers) @@ (NoSha :> ReadOnly)

\* Whatever is downloaded carries a hash.
WantHashed == (t1 :> {a}) @@ (t2 :> {a}) @@ (t3 :> {a, b, NoSha})

\* One installation after another may ask for either archive.
WantEither == (t1 :> {a, b}) @@ (t3 :> {a, b})

\* Requests with and without a hash.
WantMixed == (t1 :> {a}) @@ (t2 :> {a}) @@ (t3 :> {b, NoSha})
=============================================================================
