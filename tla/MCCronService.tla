--------------------------- MODULE MCCronService ---------------------------
EXTENDS CronService
=============================================================================
