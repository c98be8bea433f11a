----------------------------- MODULE ImageFrame -----------------------------
(***************************************************************************)
(* imagesAPISize of internal/cli/image.go: a ratio W:H, a pair of numbers, *)
(* and a tier become the pixels of a frame, <<short, long>>.  The code     *)
(* computes in float64; here it is exact, with roundings where the code    *)
(* has them.                                                               *)
(***************************************************************************)
EXTENDS Naturals

MaxEdge == 3840
MaxPixels == 3840 * 2160
Tiers == {"", "1K", "2K", "4K"}
Edge(tier) == CASE tier = "2K" -> 2048 [] tier = "4K" -> 4096 [] OTHER -> 1024
Lo(a) == IF a[1] < a[2] THEN a[1] ELSE a[2]
Hi(a) == IF a[1] < a[2] THEN a[2] ELSE a[1]

Renderable(a, tier) == tier \in Tiers /\ Hi(a) <= 3 * Lo(a)

\* round16 of n / d, and of the root of n / d.
Round16(n, d) == ((2 * n + 16 * d) \div (32 * d)) * 16
Root16(n, d) == 16 * (CHOOSE k \in 1..300 : /\ n < (16 * k + 8) * (16 * k + 8) * d
                                            /\ n >= (16 * k - 8) * (16 * k - 8) * d)

\* The frame before rounding has the short edge of its tier unless its long edge
\* or its area is too large.
TooLong(a, tier) == Edge(tier) * Hi(a) > MaxEdge * Lo(a)
TooMany(a, tier) == IF TooLong(a, tier) THEN MaxEdge * Lo(a) > 2160 * Hi(a)
                                        ELSE Edge(tier) * Hi(a) * Edge(tier) > MaxPixels * Lo(a)

\* Rounded, the long edge comes down to its limit and then the short one until
\* the area is within bounds.
Shrunk(s, l) == LET long == IF l > MaxEdge THEN MaxEdge ELSE l
                    most == ((MaxPixels \div long) \div 16) * 16
                IN  <<IF s > most THEN most ELSE s, long>>

\* As if the rounded frame were not looked at again.
FrameUnshrunk(a, tier) ==
  CASE TooMany(a, tier) -> <<Root16(MaxPixels * Lo(a), Hi(a)), Root16(MaxPixels * Hi(a), Lo(a))>>
    [] TooLong(a, tier) /\ ~TooMany(a, tier) -> <<Round16(MaxEdge * Lo(a), Hi(a)), MaxEdge>>
    [] OTHER -> <<Edge(tier), Round16(Edge(tier) * Hi(a), Lo(a))>>

Frame(a, tier) ==
  CASE TooMany(a, tier) ->
         Shrunk(Root16(MaxPixels * Lo(a), Hi(a)), Root16(MaxPixels * Hi(a), Lo(a)))
    [] TooLong(a, tier) /\ ~TooMany(a, tier) ->
         Shrunk(Round16(MaxEdge * Lo(a), Hi(a)), MaxEdge)
    [] OTHER ->
         Shrunk(Edge(tier), Round16(Edge(tier) * Hi(a), Lo(a)))

\* A frame the endpoint takes: sides on multiples of 16, within its edge, its
\* area and its ratio (image.go:44-50); with the short edge of the tier unless a
\* limit forbids it, which leaves a third of the limit, and the ratio asked for up
\* to the rounding of its sides and what the short one comes down after it.
Fits(f, a, tier) ==
  LET s == f[1]  l == f[2] IN
    /\ s % 16 = 0 /\ l % 16 = 0
    /\ l <= MaxEdge /\ s * l <= MaxPixels /\ s <= l /\ l <= 3 * s
    /\ s = Edge(tier) \/ ((TooLong(a, tier) \/ TooMany(a, tier)) /\ s >= 1280)
    /\ l * Lo(a) <= s * Hi(a) + 32 * Hi(a) /\ s * Hi(a) <= l * Lo(a) + 16 * Hi(a)
=============================================================================
