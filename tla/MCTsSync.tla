------------------------------ MODULE MCTsSync ------------------------------
EXTENDS TsSync

\* 188, 192, 204 and 208, scaled down.
Sizes == <<5, 6, 7, 8>>
=============================================================================
