-------------------------- MODULE MCOriginalQuery ---------------------------
(* Libraries of six photos, two of which hold files of interest, and       *)
(* batches of one target and of two like or different ones, for TLC.       *)
EXTENDS OriginalQuery

CONSTANTS x, y, z, h, MaxPhotos, Dates

(* The RAWs x and y have one size, z another.                              *)
Sizes == [f \in {x, y, z, h} |-> IF f = z THEN 2 ELSE 1]

Falling(n) == {d \in [1..n -> Dates] : \A i \in 1..(n - 1) : d[i] >= d[i + 1]}

Library(n, d, i, j, f, g) ==
    [k \in 1..n |-> [id |-> k, date |-> d[k],
                     has |-> IF k = i THEN f ELSE IF k = j THEN g ELSE {z}]]

SmallLibraries ==
    {<<>>, <<[id |-> 1, date |-> 2, has |-> {}]>>} \union
    {Library(MaxPhotos, d, i[1], i[2], f[1], f[2]) : d \in Falling(MaxPhotos),
        i \in {k \in (1..MaxPhotos) \X (1..MaxPhotos) : k[1] < k[2]},
        f \in {<<{x}, {x}>>, <<{x}, {y}>>, <<{x}, {h}>>, <<{x, h}, {x}>>}}

Target(c, r, s) == [captured |-> c, raw |-> r, heic |-> s]
SmallRequests ==
    {<<Target(2, x, h)>>,
     <<Target(2, x, None), Target(2, x, None)>>,
     <<Target(2, x, None), Target(4, x, None)>>,
     <<Target(2, x, h), Target(4, y, None)>>}
=============================================================================
