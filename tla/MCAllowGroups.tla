--------------------------- MODULE MCAllowGroups ---------------------------
(* AllowGroups on small templates: an entry outside every group, a group   *)
(* for one feature, and one either feature keeps.                          *)
EXTENDS AllowGroups, TLC

CONSTANTS node, uv, onUv, onEither, api, pypi, cdn, own, nolist

MCNeeds == onUv :> {uv} @@ onEither :> {node, uv}
MCNoList == <<nolist>>

\* The shape of the shipped template, ...
Stock == <<Entry(api), Requires(onUv), Text, Entry(pypi), End, Requires(onEither), Entry(cdn), End>>
\* ... one with an entry more in a group and two groups less, ...
Curated == <<Entry(api), Requires(onUv), Entry(pypi), Entry(cdn), End>>
\* ... one SeedFor refuses, ...
Nested == <<Requires(onUv), Requires(onEither), Entry(cdn), End>>
\* ... one with every entry of a group commented out, ...
Hollow == <<Entry(api), Requires(onUv), Text, End>>
\* ... and one with two groups for one feature.
Twice == <<Requires(onUv), Entry(pypi), End, Entry(api), Requires(onUv), Entry(cdn), End>>

ShippedTemplates == {Stock, Curated, Nested}
HollowTemplate == {Hollow}
TwiceTemplate == {Twice}
StockTemplate == {Stock}
=============================================================================
