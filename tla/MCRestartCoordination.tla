----------------------- MODULE MCRestartCoordination -----------------------
EXTENDS RestartCoordination
=============================================================================
