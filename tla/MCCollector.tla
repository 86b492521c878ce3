---------------------------- MODULE MCCollector ----------------------------
EXTENDS Collector

CONSTANTS b1, b2, b3, view, static

MCBox == <<b1, b2, b3>>
MCRoot == <<view, static>>
MCSymbol == 1 .. 4
MCCell == {b1, b2, b3, view, static, FreeHead} \cup MCSymbol
=============================================================================
