---------------------------- MODULE MCCrawlRun ----------------------------
(* Instances of CrawlRun for TLC.                                          *)
EXTENDS CrawlRun, TLC

CONSTANTS a, b, c

Triangle == (a :> {b, c}) @@ (b :> {c}) @@ (c :> {a})
=============================================================================
