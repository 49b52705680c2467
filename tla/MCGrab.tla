------------------------------- MODULE MCGrab -------------------------------
EXTENDS Grab
MCPositions == -3 .. 3
MCPlaces == -1 .. 1
MCLengths == 1 .. 2
=============================================================================
