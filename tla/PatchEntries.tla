---------------------------- MODULE PatchEntries ----------------------------
(***************************************************************************)
(* The 34 entries of make_patch_spec_v3.py as <<first line, last line,     *)
(* lines of the replacement>>, in authoring order.  The text itself is     *)
(* left out.                                                               *)
(***************************************************************************)
EXTENDS Integers, Sequences, FiniteSetsExt

\* Preamble, abstract, introduction, metrics, baseline table and depth.
FrontEntries ==
    <<<<83, 83, 3>>, <<159, 161, 3>>, <<162, 164, 3>>, <<310, 319, 10>>, <<542, 543, 2>>,
      <<1244, 1251, 11>>, <<1296, 1298, 3>>, <<1438, 1438, 1>>, <<1458, 1462, 5>>,
      <<1811, 1813, 3>>, <<1825, 1833, 9>>>>

\* Energy accounting, its metric, and Section F.
EnergyEntries ==
    <<<<1875, 1881, 8>>, <<1943, 1954, 9>>, <<1968, 1971, 4>>, <<1973, 1983, 13>>,
      <<2003, 2009, 13>>, <<2011, 2021, 12>>>>

\* The escape table, and what was appended after it out of line order.
EscapeEntries ==
    <<<<2028, 2032, 5>>, <<2063, 2064, 2>>, <<2075, 2077, 3>>, <<1899, 1900, 2>>,
      <<1904, 1907, 5>>, <<2082, 2084, 3>>, <<2086, 2092, 7>>, <<2190, 2197, 8>>>>

\* The identity, the degree table, and the conclusions.
IdentityEntries ==
    <<<<2292, 2298, 8>>, <<2300, 2338, 10>>, <<2340, 2356, 16>>, <<2371, 2374, 4>>,
      <<2376, 2377, 2>>, <<2431, 2431, 1>>, <<2565, 2568, 4>>, <<2573, 2577, 5>>,
      <<2617, 2620, 4>>>>

PublishedEntries == FrontEntries \o EnergyEntries \o EscapeEntries \o IdentityEntries
PublishedDelta ==
    MapThenSumSet(LAMBDA k : PublishedEntries[k][3]
                               - (PublishedEntries[k][2] - PublishedEntries[k][1] + 1),
                  DOMAIN PublishedEntries)

(***************************************************************************)
(* What the script says of its own list: 34 entries, no two of which       *)
(* overlap or hold a line beyond the 2700 of the base, and the 2684 lines  *)
(* of the manuscript they led to.                                          *)
(***************************************************************************)
ASSUME PublishedListIsConsistent ==
    /\ Len(PublishedEntries) = 34
    /\ \A i, j \in DOMAIN PublishedEntries :
         i # j => \/ PublishedEntries[i][2] < PublishedEntries[j][1]
                  \/ PublishedEntries[j][2] < PublishedEntries[i][1]
    /\ \A i \in DOMAIN PublishedEntries :
         1 <= PublishedEntries[i][1] /\ PublishedEntries[i][2] <= 2700
    /\ 2700 + PublishedDelta = 2684
=============================================================================
