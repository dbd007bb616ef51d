---- MODULE MCMainnetUpgrades ----
EXTENDS UpgradeOrder
====
