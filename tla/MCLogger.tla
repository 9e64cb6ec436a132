------------------------------ MODULE MCLogger ------------------------------
EXTENDS Logger
===============================================================================
