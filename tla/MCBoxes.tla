------------------------------ MODULE MCBoxes ------------------------------
\* Two dynamic boxes, a static one and one other symbol; all values are in the cfg.
EXTENDS Boxes
=============================================================================
