------------------------------ MODULE MCDownload ------------------------------
\* An instance of Download for TLC.
EXTENDS Download
===============================================================================
