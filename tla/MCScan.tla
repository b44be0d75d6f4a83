------------------------------ MODULE MCScan ------------------------------
\* Four muxes in three bands, two frontends: the first two muxes are so close
\* that they match each other, one band needs the second frontend, and the last
\* mux is in a band that no frontend has.  One scan may be stopped by the user,
\* and one also scans what it finds.
EXTENDS Scan, TLC

Bands == <<"L", "L", "H", "X">>
Close == {{1, 2}}
LowAndBoth == 1 :> {"L"} @@ 2 :> {"L", "H"}
=============================================================================
