----------------------------- MODULE MCLogOnce -----------------------------
EXTENDS LogOnce

MCGoroutines == {"pg", "mysql"}
=============================================================================
